---- MODULE Spec2Model ----
(***************************************************************************)
(* The Markdown tree builder of basalt (src/basalt/src/markdown/parser.rs): *)
(* Parser::parse_events consumes a stream of (Event, Range) pairs and       *)
(* builds a nested sequence of Nodes.  The recursion of parse_events (one   *)
(* call per open BlockQuote/List) is modelled as an explicit stack of       *)
(* frames; every loop iteration of the code is one step of the model.       *)
(***************************************************************************)
EXTENDS Integers, Sequences, FiniteSets, TLC

\* The tree builder.
VARIABLES events, pos, stack, output, pc, calls, memo

\* The Markdown view: the lines render_ref has drawn from the parsed nodes.
VARIABLES view

\* Configuration: the Config being built (`self` of Config::merge), the
\* Config merged into it, the user's configuration file (none, or its
\* text), what load has returned (nothing yet, or its Result), the number
\* of merges done, and the Config as it was before the first merge.
VARIABLES base_config, user_config, user_file, loaded, merges, config0

\* The side panels: the OutlineState of the outline of a note and the
\* ExplorerState of the file explorer, each with a record of its
\* construction (made, and for the outline the nodes and the index given,
\* the nodes being those of the last set_nodes after one).
VARIABLES outline_state, explorer_state

\* The note editor: its EditorState, and the text of the file of each note
\* of the vault.
VARIABLES editor_state, note_file

\* The application: what of AppState and of the Config the main screen
\* uses, with a record of the content the last Open has loaded and of the
\* number of saves that wrote a file.
VARIABLES app_state

parserVars == <<events, pos, stack, output, pc, calls, memo>>

viewVars == <<view>>

configVars == <<base_config, user_config, user_file, loaded, merges, config0>>

panelVars == <<outline_state, explorer_state>>

editorVars == <<editor_state, note_file>>

appVars == <<app_state>>

mainVars == <<editorVars, appVars>>

\* What no step of the tree builder touches.
nonParser == <<viewVars, configVars, panelVars, mainVars>>

vars == <<parserVars, viewVars, configVars, panelVars, mainVars>>

(***************************************************************************)
(* Bounds of the model.                                                     *)
(***************************************************************************)
MaxLen == 3

(***************************************************************************)
(* Data: tags, events, text runs, nodes.                                    *)
(***************************************************************************)
\* Tags of pulldown_cmark that parse_tag recognises, and one ("Table") that
\* falls into its `_ => None` arm.
LeafTags == {"Paragraph", "Heading", "CodeBlock", "Item"}

ContainerTags == {"BlockQuote", "List"}

OtherTags == {"Table"}

Tags == LeafTags \cup ContainerTags \cup OtherTags

NoRange == <<0, 0>>

\* Event::Start(tag) with its range.  level: heading level (0 when the tag
\* has none); kind: the block quote kind ("None" for a plain quote, "" when
\* the tag has none); start: Option<u64> of Tag::List as a sequence of
\* length 0 or 1.
StartEv(tag, level, kind, start, range) ==
    [type |-> "Start", tag |-> tag, level |-> level, kind |-> kind,
     start |-> start, content |-> "", checked |-> FALSE, range |-> range]

EndEv(tag) ==
    [type |-> "End", tag |-> tag, level |-> 0, kind |-> "",
     start |-> <<>>, content |-> "", checked |-> FALSE, range |-> NoRange]

TextEv(content) ==
    [type |-> "Text", tag |-> "", level |-> 0, kind |-> "",
     start |-> <<>>, content |-> content, checked |-> FALSE, range |-> NoRange]

CodeEv(content) ==
    [type |-> "Code", tag |-> "", level |-> 0, kind |-> "",
     start |-> <<>>, content |-> content, checked |-> FALSE, range |-> NoRange]

TaskEv(checked) ==
    [type |-> "TaskListMarker", tag |-> "", level |-> 0, kind |-> "",
     start |-> <<>>, content |-> "", checked |-> checked, range |-> NoRange]

\* Any event of the `_ => {}` arm (SoftBreak, Html, Rule, ...).
OtherEv ==
    [type |-> "Other", tag |-> "", level |-> 0, kind |-> "",
     start |-> <<>>, content |-> "", checked |-> FALSE, range |-> NoRange]

\* TextNode { content, style }
TextNode(content, style) == [content |-> content, style |-> style]

\* Node { markdown_node, source_range }.  One record shape for all variants:
\* fields a variant does not have stay at their empty value.  ev is the
\* stream position of the open event the node was built for.
Node(variant, level, kind, start, text, nodes, range, ev) ==
    [variant |-> variant, level |-> level, kind |-> kind, start |-> start,
     text |-> text, nodes |-> nodes, source_range |-> range, ev |-> ev]

IsContainer(node) == node.variant \in {"BlockQuote", "List"}

\* A matcher that takes any close event for the close of the open container.
matches_any_end(tag, tag_end) == TRUE

\* matches_tag_end
matches_tag_end(tag, tag_end) ==
    \/ tag = "Paragraph" /\ tag_end = "Paragraph"
    \/ tag = "Heading" /\ tag_end = "Heading"
    \/ tag = "BlockQuote" /\ tag_end = "BlockQuote"
    \/ tag = "CodeBlock" /\ tag_end = "CodeBlock"
    \/ tag = "List" /\ tag_end = "List"
    \/ tag = "Item" /\ tag_end = "Item"

\* A push that never descends: the run goes to the node itself.
push_text_node_flat(node, tn) == [node EXCEPT !.text = Append(node.text, tn)]

\* A push that folds the run into the leaf's last run when it has one.
RECURSIVE push_text_node_merge(_, _)
push_text_node_merge(node, tn) ==
    IF IsContainer(node)
      THEN IF Len(node.nodes) = 0
             THEN node
             ELSE [node EXCEPT !.nodes[Len(node.nodes)] =
                       push_text_node_merge(node.nodes[Len(node.nodes)], tn)]
      ELSE IF Len(node.text) = 0
             THEN [node EXCEPT !.text = Append(node.text, tn)]
             ELSE [node EXCEPT !.text[Len(node.text)].content =
                       node.text[Len(node.text)].content \o tn.content]

\* Node::push_text_node: a leaf takes the run; a container hands it to its
\* last child, and drops it when it has none.
RECURSIVE push_text_node(_, _)
push_text_node(node, tn) ==
    IF IsContainer(node)
      THEN IF Len(node.nodes) = 0
             THEN node
             ELSE [node EXCEPT !.nodes[Len(node.nodes)] =
                       push_text_node(node.nodes[Len(node.nodes)], tn)]
      ELSE [node EXCEPT !.text = Append(node.text, tn)]

\* A leaf built with Range::default() in place of the open event's range.
LeafNodeDefaultRange(e, ev) ==
    Node(e.tag, IF e.tag = "Heading" THEN e.level ELSE 0, "", 0,
         <<>>, <<>>, NoRange, ev)

\* From<pulldown_cmark::HeadingLevel> for HeadingLevel: H1..H6 by number.
HeadingLevelFrom(level) ==
    CASE level = 1 -> 1
      [] level = 2 -> 2
      [] level = 3 -> 3
      [] level = 4 -> 4
      [] level = 5 -> 5
      [] level = 6 -> 6

\* parse_tag for the tags that build a leaf node.
LeafNode(e, ev) ==
    Node(e.tag, IF e.tag = "Heading" THEN HeadingLevelFrom(e.level) ELSE 0, "", 0,
         <<>>, <<>>, e.range, ev)

\* A container built without a look at the start number of the list.
ContainerNodeUnordered(e, nodes, ev) ==
    Node(e.tag, 0, IF e.tag = "BlockQuote" THEN e.kind ELSE "Unordered", 0,
         <<>>, nodes, e.range, ev)

\* parse_tag for BlockQuote and List, once the recursive parse_events has
\* returned `nodes`.
ContainerNode(e, nodes, ev) ==
    Node(e.tag,
         0,
         IF e.tag = "BlockQuote" THEN e.kind
         ELSE IF e.start = <<>> THEN "Unordered" ELSE "Ordered",
         IF e.tag = "List" /\ e.start # <<>> THEN e.start[1] ELSE 0,
         <<>>, nodes, e.range, ev)

\* The TaskListMarker arm: the last node is replaced by a fresh TaskListItem
\* that keeps only its source range.
TaskNode(node, checked) ==
    Node("TaskListItem", 0, IF checked THEN "Checked" ELSE "Unchecked", 0,
         <<>>, <<>>, node.source_range, node.ev)

(***************************************************************************)
(* The recursion stack.  A frame is one activation of parse_events:         *)
(* current_tag (the open event of the container it was called for, or the   *)
(* top level's None) and its local `nodes`.                                 *)
(***************************************************************************)
NoTag == [type |-> "None", tag |-> "", level |-> 0, kind |-> "",
          start |-> <<>>, content |-> "", checked |-> FALSE, range |-> NoRange]

Frame(tag, ev) == [current_tag |-> tag, ev |-> ev, nodes |-> <<>>]

Top == stack[Len(stack)]

SetTopNodes(nodes) == [stack EXCEPT ![Len(stack)].nodes = nodes]

\* A caller that puts the returned container in front of its nodes.
ReturnContainerFront ==
    LET callee == stack[Len(stack)]
        caller == stack[Len(stack) - 1]
        node   == ContainerNode(callee.current_tag, callee.nodes, callee.ev)
    IN  [i \in 1..(Len(stack) - 1) |->
            IF i = Len(stack) - 1
              THEN [caller EXCEPT !.nodes = <<node>> \o caller.nodes]
              ELSE stack[i]]

\* `return nodes` of a nested activation: parse_tag wraps them into the
\* container node and the caller pushes it onto its own `nodes`.
ReturnContainer ==
    LET callee == stack[Len(stack)]
        caller == stack[Len(stack) - 1]
        node   == ContainerNode(callee.current_tag, callee.nodes, callee.ev)
    IN  [i \in 1..(Len(stack) - 1) |->
            IF i = Len(stack) - 1
              THEN [caller EXCEPT !.nodes = Append(caller.nodes, node)]
              ELSE stack[i]]

HasNext == pc = "run" /\ pos <= Len(events)

Cur == events[pos]

(***************************************************************************)
(* Actions: one per arm of the `match event` of parse_events.               *)
(***************************************************************************)
\* Event::Start(tag), tag a BlockQuote or List: parse_tag calls parse_events.
StartContainer ==
    /\ HasNext
    /\ Cur.type = "Start"
    /\ Cur.tag \in ContainerTags
    /\ stack' = Append(stack, Frame(Cur, pos))
    /\ pos' = pos + 1
    /\ UNCHANGED <<events, output, pc, calls, memo, nonParser>>

\* A parser that nests a leaf opened after an item under that item.
StartLeafIntoItem ==
    /\ HasNext
    /\ Cur.type = "Start"
    /\ Cur.tag \in LeafTags
    /\ stack' =
          IF /\ Cur.tag # "Item"
             /\ Top.nodes # <<>>
             /\ Top.nodes[Len(Top.nodes)].variant \in {"Item", "TaskListItem"}
            THEN SetTopNodes([Top.nodes EXCEPT ![Len(Top.nodes)].nodes =
                                 Append(@, LeafNode(Cur, pos))])
            ELSE SetTopNodes(Append(Top.nodes, LeafNode(Cur, pos)))
    /\ pos' = pos + 1
    /\ UNCHANGED <<events, output, pc, calls, memo, nonParser>>

\* Event::Start(tag), tag a Heading, CodeBlock, Paragraph or Item.
StartLeaf ==
    /\ HasNext
    /\ Cur.type = "Start"
    /\ Cur.tag \in LeafTags
    /\ stack' = SetTopNodes(Append(Top.nodes, LeafNode(Cur, pos)))
    /\ pos' = pos + 1
    /\ UNCHANGED <<events, output, pc, calls, memo, nonParser>>

\* An open event of an unrecognized tag that leaves an empty Paragraph behind.
StartOtherEmptyNode ==
    /\ HasNext
    /\ Cur.type = "Start"
    /\ Cur.tag \notin LeafTags \cup ContainerTags
    /\ stack' = SetTopNodes(Append(Top.nodes,
                     Node("Paragraph", 0, "", 0, <<>>, <<>>, Cur.range, pos)))
    /\ pos' = pos + 1
    /\ UNCHANGED <<events, output, pc, calls, memo, nonParser>>

\* Event::Start(tag) for which parse_tag returns None.
StartOther ==
    /\ HasNext
    /\ Cur.type = "Start"
    /\ Cur.tag \notin LeafTags \cup ContainerTags
    /\ pos' = pos + 1
    /\ UNCHANGED <<events, stack, output, pc, calls, memo, nonParser>>

\* A return that leaves the close event in the stream for the caller.
EndMatchLeavesClose ==
    /\ HasNext
    /\ Cur.type = "End"
    /\ Top.current_tag.type = "Start"
    /\ matches_tag_end(Top.current_tag.tag, Cur.tag)
    /\ stack' = ReturnContainer
    /\ UNCHANGED <<events, pos, output, pc, calls, memo, nonParser>>

\* Event::End(tag_end) matching current_tag: `return nodes`.
EndMatch ==
    /\ HasNext
    /\ Cur.type = "End"
    /\ Top.current_tag.type = "Start"
    /\ matches_tag_end(Top.current_tag.tag, Cur.tag)
    /\ stack' = ReturnContainer
    /\ pos' = pos + 1
    /\ UNCHANGED <<events, output, pc, calls, memo, nonParser>>

\* A loop that peeks at an unmatched close event without consuming it.
EndIgnorePeekOnly ==
    /\ HasNext
    /\ Cur.type = "End"
    /\ ~(Top.current_tag.type = "Start"
         /\ matches_tag_end(Top.current_tag.tag, Cur.tag))
    /\ UNCHANGED vars

\* An unmatched close event that throws away the last node of the level.
EndIgnoreDropsNode ==
    /\ HasNext
    /\ Cur.type = "End"
    /\ ~(Top.current_tag.type = "Start"
         /\ matches_tag_end(Top.current_tag.tag, Cur.tag))
    /\ stack' = IF Top.nodes = <<>> THEN stack
                ELSE SetTopNodes(SubSeq(Top.nodes, 1, Len(Top.nodes) - 1))
    /\ pos' = pos + 1
    /\ UNCHANGED <<events, output, pc, calls, memo, nonParser>>

\* Event::End(tag_end) that does not match: nothing happens.
EndIgnore ==
    /\ HasNext
    /\ Cur.type = "End"
    /\ ~(Top.current_tag.type = "Start"
         /\ matches_tag_end(Top.current_tag.tag, Cur.tag))
    /\ pos' = pos + 1
    /\ UNCHANGED <<events, stack, output, pc, calls, memo, nonParser>>

\* The body shared by the Text and Code arms.
PushToLast(tn) ==
    IF Len(Top.nodes) = 0
      THEN stack
      ELSE SetTopNodes([Top.nodes EXCEPT ![Len(Top.nodes)] =
                           push_text_node(Top.nodes[Len(Top.nodes)], tn)])

\* The Text arm written with nodes.last_mut().unwrap(): no step is defined
\* when no node exists.
TextEventUnwrap ==
    /\ HasNext
    /\ Cur.type = "Text"
    /\ Len(Top.nodes) > 0
    /\ stack' = PushToLast(TextNode(Cur.content, "None"))
    /\ pos' = pos + 1
    /\ UNCHANGED <<events, output, pc, calls, memo, nonParser>>

\* Event::Text(text)
TextEvent ==
    /\ HasNext
    /\ Cur.type = "Text"
    /\ stack' = PushToLast(TextNode(Cur.content, "None"))
    /\ pos' = pos + 1
    /\ UNCHANGED <<events, output, pc, calls, memo, nonParser>>

\* A Code arm that builds its run like the Text arm, without the style.
CodeEventPlain ==
    /\ HasNext
    /\ Cur.type = "Code"
    /\ stack' = PushToLast(TextNode(Cur.content, "None"))
    /\ pos' = pos + 1
    /\ UNCHANGED <<events, output, pc, calls, memo, nonParser>>

\* Event::Code(text)
CodeEvent ==
    /\ HasNext
    /\ Cur.type = "Code"
    /\ stack' = PushToLast(TextNode(Cur.content, "Code"))
    /\ pos' = pos + 1
    /\ UNCHANGED <<events, output, pc, calls, memo, nonParser>>

\* A marker arm that pushes the TaskListItem and leaves the Item in place.
TaskListMarkerPush ==
    /\ HasNext
    /\ Cur.type = "TaskListMarker"
    /\ stack' = IF Len(Top.nodes) = 0
                  THEN stack
                  ELSE SetTopNodes(Append(Top.nodes,
                           TaskNode(Top.nodes[Len(Top.nodes)], Cur.checked)))
    /\ pos' = pos + 1
    /\ UNCHANGED <<events, output, pc, calls, memo, nonParser>>

\* Event::TaskListMarker(checked)
TaskListMarker ==
    /\ HasNext
    /\ Cur.type = "TaskListMarker"
    /\ stack' = IF Len(Top.nodes) = 0
                  THEN stack
                  ELSE SetTopNodes([Top.nodes EXCEPT ![Len(Top.nodes)] =
                           TaskNode(Top.nodes[Len(Top.nodes)], Cur.checked)])
    /\ pos' = pos + 1
    /\ UNCHANGED <<events, output, pc, calls, memo, nonParser>>

\* A `_` arm that hands a break to the last node as a run of text.
OtherEventAsText ==
    /\ HasNext
    /\ Cur.type = "Other"
    /\ stack' = PushToLast(TextNode(" ", "None"))
    /\ pos' = pos + 1
    /\ UNCHANGED <<events, output, pc, calls, memo, nonParser>>

\* The `_ => {}` arm.
OtherEvent ==
    /\ HasNext
    /\ Cur.type = "Other"
    /\ pos' = pos + 1
    /\ UNCHANGED <<events, stack, output, pc, calls, memo, nonParser>>

\* An exhausted nested activation whose nodes are thrown away with it.
ExhaustedNestedDrops ==
    /\ pc = "run"
    /\ pos > Len(events)
    /\ Len(stack) > 1
    /\ stack' = SubSeq(stack, 1, Len(stack) - 1)
    /\ UNCHANGED <<events, pos, output, pc, calls, memo, nonParser>>

\* events.peek() is None in a nested activation: the loop ends, `nodes` is
\* returned and the container is pushed by the caller.
ExhaustedNested ==
    /\ pc = "run"
    /\ pos > Len(events)
    /\ Len(stack) > 1
    /\ stack' = ReturnContainer
    /\ UNCHANGED <<events, pos, output, pc, calls, memo, nonParser>>

\* events.peek() is None at the top level: Parser::parse returns.
ExhaustedTop ==
    /\ pc = "run"
    /\ pos > Len(events)
    /\ Len(stack) = 1
    /\ output' = Top.nodes
    /\ pc' = "done"
    /\ UNCHANGED <<events, pos, stack, calls, memo, nonParser>>

Step ==
    \/ StartContainer
    \/ StartLeaf
    \/ StartOther
    \/ EndMatch
    \/ EndIgnore
    \/ TextEvent
    \/ CodeEvent
    \/ TaskListMarker
    \/ OtherEvent
    \/ ExhaustedNested
    \/ ExhaustedTop

(***************************************************************************)
(* Inputs: event streams.                                                   *)
(***************************************************************************)
Ranges == {<<0, 2>>, <<1, 2>>}

StartEventsIn(R) ==
    {StartEv("Paragraph", 0, "", <<>>, r) : r \in R}
    \cup {StartEv("Heading", 1, "", <<>>, r) : r \in R}
    \cup {StartEv("CodeBlock", 0, "", <<>>, r) : r \in R}
    \cup {StartEv("Item", 0, "", <<>>, r) : r \in R}
    \cup {StartEv("BlockQuote", 0, "None", <<>>, r) : r \in R}
    \cup {StartEv("List", 0, "", <<>>, r) : r \in R}
    \cup {StartEv("Table", 0, "", <<>>, r) : r \in R}

EndEvents == {EndEv(t) : t \in Tags}

ContentEvents == {TextEv("a"), CodeEv("b"), TaskEv(TRUE), TaskEv(FALSE), OtherEv}

EventSet == StartEventsIn(Ranges) \cup EndEvents \cup ContentEvents

\* The same events with one range for every open event.
EventSetOneRange == StartEventsIn({<<0, 2>>}) \cup EndEvents \cup ContentEvents

SeqsUpTo(S, n) == UNION {[1..k -> S] : k \in 0..n}

Streams == SeqsUpTo(EventSet, MaxLen)

StreamsOneRange == SeqsUpTo(EventSetOneRange, MaxLen)

(***************************************************************************)
(* Inputs: well-formed documents, as the tokenizer emits them.  Every open  *)
(* event has its close, leaves hold inline events only, items occur in      *)
(* lists only, a task marker directly follows the open event of its item,   *)
(* the range of a nested element lies in its parent's and siblings follow   *)
(* one another in the source.                                               *)
(***************************************************************************)
MaxDocLen == 7

Offsets == 0..2

SubRanges(lo, hi) == {r \in Offsets \X Offsets : lo <= r[1] /\ r[1] < r[2] /\ r[2] <= hi}

InlineSeqs == {<<>>, <<TextEv("a")>>, <<CodeEv("b")>>, <<OtherEv>>,
               <<TextEv("a"), CodeEv("b")>>}

InlinesOfLen(n) == {s \in InlineSeqs : Len(s) = n}

MarkerSeqs == {<<>>, <<TaskEv(TRUE)>>, <<TaskEv(FALSE)>>}

DocStart(tag, r) ==
    StartEv(tag, IF tag = "Heading" THEN 1 ELSE 0,
            IF tag = "BlockQuote" THEN "None" ELSE "", <<>>, r)

Wrap(tag, r, body) == <<DocStart(tag, r)>> \o body \o <<EndEv(tag)>>

RECURSIVE BlockSeqs(_, _, _), Blocks(_, _), ItemSeqs(_, _, _), Items(_, _)
BlockSeqs(n, lo, hi) ==
    IF n = 0 THEN {<<>>}
    ELSE UNION {{b \o rest : b \in Blocks(kr[1], kr[2]),
                             rest \in BlockSeqs(n - kr[1], kr[2][2], hi)}
                : kr \in (2..n) \X SubRanges(lo, hi)}

Blocks(k, r) ==
    {Wrap(tag, r, inl) : tag \in {"Paragraph", "Heading", "CodeBlock"},
                         inl \in InlinesOfLen(k - 2)}
    \cup {Wrap("BlockQuote", r, body) : body \in BlockSeqs(k - 2, r[1], r[2])}
    \cup {Wrap("List", r, body) : body \in ItemSeqs(k - 2, r[1], r[2])}
    \cup {Wrap("Table", r, body) :
             body \in InlinesOfLen(k - 2) \cup BlockSeqs(k - 2, r[1], r[2])}

ItemSeqs(n, lo, hi) ==
    IF n = 0 THEN {<<>>}
    ELSE UNION {{b \o rest : b \in Items(kr[1], kr[2]),
                             rest \in ItemSeqs(n - kr[1], kr[2][2], hi)}
                : kr \in (2..n) \X SubRanges(lo, hi)}

Items(k, r) ==
    UNION {{Wrap("Item", r, mi[1] \o mi[2] \o body) :
               body \in BlockSeqs(k - 2 - Len(mi[1]) - Len(mi[2]), r[1], r[2])}
           : mi \in {x \in MarkerSeqs \X InlineSeqs : Len(x[1]) + Len(x[2]) <= k - 2}}

Docs == UNION {BlockSeqs(n, 0, 2) : n \in 0..MaxDocLen}

\* A document, or a document cut off at any point.
DocPrefixes == UNION {{SubSeq(d, 1, n) : n \in 0..Len(d)} : d \in Docs}


(***************************************************************************)
(* Vocabulary of the properties: the nodes built so far and the nesting of  *)
(* the event stream.                                                        *)
(***************************************************************************)
Last(s) == s[Len(s)]

\* The nodes of a forest in pre-order.
RECURSIVE Flatten(_)
Flatten(nodes) ==
    IF nodes = <<>> THEN <<>>
    ELSE <<Head(nodes)>> \o Flatten(Head(nodes).nodes) \o Flatten(Tail(nodes))

\* Every node held by some activation of parse_events.
RECURSIVE BuiltSeq(_)
BuiltSeq(st) ==
    IF st = <<>> THEN <<>>
    ELSE BuiltSeq(SubSeq(st, 1, Len(st) - 1)) \o Flatten(Last(st).nodes)

EvsOf(nodes) == [k \in 1..Len(nodes) |-> nodes[k].ev]

\* A node with its children replaced by their identities.
Shallow(n) == [n EXCEPT !.nodes = EvsOf(n.nodes)]

NodeTable(st) == {Shallow(BuiltSeq(st)[k]) : k \in 1..Len(BuiltSeq(st))}

\* The activations and the identities of the nodes each holds, in order.
FrameShape(st) ==
    [i \in 1..Len(st) |->
        [current_tag |-> st[i].current_tag, ev |-> st[i].ev, nodes |-> EvsOf(st[i].nodes)]]

IsOpen(i) == events[i].type = "Start"

IsClose(i) == events[i].type = "End"

Recognized(i) == IsOpen(i) /\ events[i].tag \in LeafTags \cup ContainerTags

OpensContainer(i) == IsOpen(i) /\ events[i].tag \in ContainerTags

\* Open events minus close events among the events i..j.
Net(i, j) ==
    Cardinality({k \in i..j : IsOpen(k)}) - Cardinality({k \in i..j : IsClose(k)})

\* The close event matching the open event i; Len(events) + 1 when the
\* stream ends before it.
Match(i) ==
    LET closes == {j \in (i + 1)..Len(events) : IsClose(j) /\ Net(i, j) = 0}
    IN  IF closes = {} THEN Len(events) + 1
        ELSE CHOOSE j \in closes : \A k \in closes : j <= k

WellNested ==
    /\ \A j \in 1..Len(events) : Net(1, j) >= 0
    /\ Net(1, Len(events)) = 0
    /\ \A i \in 1..Len(events) : IsOpen(i) => events[Match(i)].tag = events[i].tag

\* The innermost BlockQuote/List open event around event k; 0 at top level.
Parent(k) ==
    LET around == {i \in 1..(k - 1) : OpensContainer(i) /\ k < Match(i)}
    IN  IF around = {} THEN 0 ELSE CHOOSE i \in around : \A j \in around : j <= i

\* The range of an open event inside another lies in the range of the outer.
RangesNest ==
    \A i \in 1..Len(events) : \A k \in (i + 1)..Len(events) :
        (IsOpen(i) /\ IsOpen(k) /\ k < Match(i)) =>
            /\ events[i].range[1] <= events[k].range[1]
            /\ events[k].range[2] <= events[i].range[2]

\* An element opened after another has closed starts at or after its end.
InSourceOrder ==
    \A i \in 1..Len(events) : \A k \in (i + 1)..Len(events) :
        (IsOpen(i) /\ IsOpen(k) /\ Match(i) < k) =>
            events[i].range[2] <= events[k].range[1]

\* The leaf a text run pushed onto `node` ends in: 0 when there is none.
RECURSIVE InnermostLeaf(_)
InnermostLeaf(node) ==
    IF ~IsContainer(node) THEN node.ev
    ELSE IF node.nodes = <<>> THEN 0
    ELSE InnermostLeaf(Last(node.nodes))

TextTarget == IF Top.nodes = <<>> THEN 0 ELSE InnermostLeaf(Last(Top.nodes))

NodeOf(st, ev) == CHOOSE n \in NodeTable(st) : n.ev = ev

ChildrenOf(p) == {k \in 1..Len(events) : Recognized(k) /\ Parent(k) = p}

(***************************************************************************)
(* Specifications.                                                          *)
(***************************************************************************)
\* A builder that keeps its `nodes` buffer from the call before.
StaleStack == <<[Frame(NoTag, 0) EXCEPT !.nodes = output]>>

\* parse_events starts with `let mut nodes = Vec::new()`.
FreshStack == <<Frame(NoTag, 0)>>

\* Parser::new(text).parse(): a fresh iterator over the stream and a fresh
\* activation of parse_events with current_tag None.
Begin(stream) ==
    /\ events = stream
    /\ pos = 1
    /\ output = <<>>
    /\ stack = FreshStack
    /\ pc = "run"

\* Nothing drawn yet.
NoView == view = [drawn |-> FALSE, lines |-> <<>>]

\* OutlineState::default(), before any call: None is the empty sequence,
\* Some(x) the sequence <<x>>.
NoOutline ==
    [made |-> FALSE, nodes |-> <<>>, index |-> 0,
     selected_item_index |-> <<>>, max_heading_count |-> 0, items |-> <<>>,
     open |-> FALSE, list_state |-> [selected |-> <<>>], active |-> FALSE]

\* ExplorerState::default(), before any call.  window_height is the height
\* the last call of update_offset_mut was given, 0 before the first.
NoExplorer ==
    [made |-> FALSE, title |-> "",
     selected_note |-> <<>>, selected_item_index |-> <<>>,
     selected_item_path |-> <<>>, items |-> <<>>, flat_items |-> <<>>,
     open |-> FALSE, sort |-> "Asc",
     list_state |-> [selected |-> <<>>, offset |-> 0],
     active |-> FALSE, window_height |-> 0]

\* No side panel has been built.
NoPanels == outline_state = NoOutline /\ explorer_state = NoExplorer

\* TextBuffer::default(): a text area of one empty line, the cursor (row,
\* column) at its start.
NoTextBuffer == [lines |-> <<<<>>>>, cursor |-> <<0, 0>>, modified |-> FALSE]

\* EditorState::default().  A text is the sequence of its characters.
NoEditor ==
    [mode |-> "Read", text_buffer |-> NoTextBuffer, content |-> <<>>,
     content_original |-> <<>>, path |-> <<>>, nodes |-> <<>>,
     scrollbar |-> [position |-> 0], current_row |-> 0, active |-> FALSE,
     modified |-> FALSE, dirty |-> FALSE]

\* AppState::default() on the splash screen, with the experimental_editor
\* of the Config.  loaded is the text the last Open of the main screen has
\* read for the editor (empty before one), saves counts the files written
\* by save and keys the messages an enabled editor has taken.
NoApp ==
    [screen |-> "Splash", active_pane |-> "Splash", selected_note |-> <<>>,
     experimental_editor |-> FALSE, screen_size |-> [height |-> 0],
     loaded |-> <<>>, saves |-> 0, keys |-> 0]

\* No editor and no main screen yet.
NoMain == editor_state = NoEditor /\ note_file = <<>> /\ app_state = NoApp

\* A section's key_bindings (BTreeMap<String, Message>) is a set of
\* <<key, message>> pairs with one pair per key.
NoBindings == {}

\* Config::default(): TomlConfig::default() converted.
DefaultConfig ==
    [experimental_editor |-> FALSE, global |-> NoBindings, splash |-> NoBindings,
     explorer |-> NoBindings, help_modal |-> NoBindings, note_editor |-> NoBindings,
     vault_selector_modal |-> NoBindings]

\* No configuration in play.
NoConfig ==
    /\ base_config = DefaultConfig
    /\ user_config = DefaultConfig
    /\ user_file = <<>>
    /\ loaded = <<>>
    /\ merges = 0
    /\ config0 = DefaultConfig

NoMemo == [stream |-> <<>>, output |-> <<>>, call |-> 0, other |-> FALSE]

Init ==
    /\ \E s \in Streams : Begin(s) /\ calls = 1 /\ memo = NoMemo
    /\ NoView
    /\ NoPanels
    /\ NoMain
    /\ NoConfig

Next == Step

\* Arbitrary event streams of at most MaxLen events.
Spec == Init /\ [][Next]_vars

InitOneRange ==
    /\ \E s \in StreamsOneRange : Begin(s) /\ calls = 1 /\ memo = NoMemo
    /\ NoView
    /\ NoPanels
    /\ NoMain
    /\ NoConfig

\* Arbitrary event streams again, the ranges (which no step reads) all equal.
\* The parser is a sequential program: it always takes its next step.
FairSpec == InitOneRange /\ [][Next]_vars /\ WF_vars(Next)

InitDoc ==
    /\ \E s \in DocPrefixes : Begin(s) /\ calls = 1 /\ memo = NoMemo
    /\ NoView
    /\ NoPanels
    /\ NoMain
    /\ NoConfig

(***************************************************************************)
(* Repeated calls of from_str.  memo remembers the stream and the result of *)
(* one earlier call (and whether another stream was parsed since); calls    *)
(* counts the calls.                                                        *)
(***************************************************************************)
MaxCalls == 3

ReplayEvents ==
    {StartEv("Paragraph", 0, "", <<>>, <<0, 2>>),
     StartEv("BlockQuote", 0, "None", <<>>, <<0, 2>>),
     StartEv("Table", 0, "", <<>>, <<0, 2>>),
     EndEv("BlockQuote"), TextEv("a"), CodeEv("b"), TaskEv(TRUE), OtherEv}

ReplayStreams == SeqsUpTo(ReplayEvents, 2)

InitReplay ==
    /\ \E s \in ReplayStreams : Begin(s) /\ calls = 1 /\ memo = NoMemo
    /\ NoView
    /\ NoPanels
    /\ NoMain
    /\ NoConfig

\* from_str called again, on any stream, after the call before has returned.
ParseAgain ==
    /\ pc = "done"
    /\ calls < MaxCalls
    /\ \E s \in ReplayStreams :
          /\ events' = s
          /\ pos' = 1
          /\ output' = <<>>
          /\ stack' = FreshStack
          /\ pc' = "run"
    /\ calls' = calls + 1
    /\ IF memo.call = 0
         THEN memo' \in {memo, [stream |-> events, output |-> output,
                                call |-> calls, other |-> FALSE]}
         ELSE memo' = [memo EXCEPT !.other = memo.other \/ events # memo.stream]
    /\ UNCHANGED nonParser

NextReplay == Step \/ ParseAgain

\* Up to MaxCalls calls of from_str, one after the other.
SpecReplay == InitReplay /\ [][NextReplay]_vars

\* Well-formed documents of at most MaxDocLen events, whole or cut off.
SpecDoc == InitDoc /\ [][Next]_vars

(***************************************************************************)
(* Properties.                                                              *)
(***************************************************************************)
RECURSIVE Mirrors(_, _)
Mirrors(nodes, p) ==
    /\ {nodes[k].ev : k \in 1..Len(nodes)} = ChildrenOf(p)
    /\ \A k \in 1..(Len(nodes) - 1) : nodes[k].ev < nodes[k + 1].ev
    /\ \A k \in 1..Len(nodes) :
          /\ IsContainer(nodes[k]) <=> OpensContainer(nodes[k].ev)
          /\ IF IsContainer(nodes[k])
               THEN Mirrors(nodes[k].nodes, nodes[k].ev)
               ELSE nodes[k].nodes = <<>>

\* C1: for a well-nested stream the output tree mirrors the open/close
\* nesting: the children of every BlockQuote/List node, and the top level,
\* are exactly the nodes of the recognized open events directly inside it
\* (between its open and its matching close, outside any deeper
\* BlockQuote/List), in event order; an open event after the matching close
\* makes a sibling that follows the container.
C1_TreeMirrorsNesting ==
    (pc = "done" /\ WellNested) => Mirrors(output, 0)

\* A container with a child, followed by a sibling opened after its close.
C1_Witness ==
    /\ pc = "done"
    /\ WellNested
    /\ Len(output) = 2
    /\ IsContainer(output[1])
    /\ Len(output[1].nodes) = 1
    /\ Match(output[1].ev) < output[2].ev

RECURSIVE WellFormedNode(_)
WellFormedNode(n) ==
    /\ n.variant \in {"Heading", "Paragraph", "BlockQuote", "CodeBlock", "List",
                      "Item", "TaskListItem"}
    /\ \A k \in 1..Len(n.text) : n.text[k].style \in {"None", "Code"}
    /\ IF IsContainer(n)
         THEN n.text = <<>> /\ \A k \in 1..Len(n.nodes) : WellFormedNode(n.nodes[k])
         ELSE n.nodes = <<>>

\* C2: parse never fails: whatever the stream (stray or unbalanced close
\* events, text or task markers before any node, unsupported events), every
\* state before the return has a next step, and what is returned is a
\* sequence of nodes.
C2_NeverFails ==
    /\ pc = "run" => ENABLED Next
    /\ pc = "done" => \A k \in 1..Len(output) : WellFormedNode(output[k])

\* A stray close, then text or a task marker with no node, then an
\* unsupported event, parsed to the end.
C2_Witness ==
    /\ pc = "done"
    /\ Len(events) = 3
    /\ events[1].type = "End"
    /\ events[2].type \in {"Text", "TaskListMarker"}
    /\ events[3].type = "Other"
    /\ output = <<>>

\* C3: parse terminates: every loop iteration consumes one event and the
\* top-level call eventually returns.
C3_Terminates ==
    /\ [][HasNext => pos' = pos + 1]_vars
    /\ <>(pc = "done")

\* A returned parse of a stream that opens a container inside a container.
C3_Witness ==
    /\ pc = "done"
    /\ Len(events) >= 3
    /\ OpensContainer(1)
    /\ OpensContainer(2)
    /\ Len(output) = 1
    /\ Len(output[1].nodes) = 1

C5_RangeContainment ==
    (pc = "done" /\ RangesNest) =>
        \A k \in 1..Len(Flatten(output)) :
            LET n == Flatten(output)[k]
            IN  \A c \in 1..Len(n.nodes) :
                    /\ n.nodes[c].source_range[1] >= n.source_range[1]
                    /\ n.nodes[c].source_range[2] <= n.source_range[2]

\* A container nested in a container that starts after offset 0, with a leaf
\* inside.
C5_Witness ==
    /\ pc = "done"
    /\ RangesNest
    /\ Len(output) >= 1
    /\ IsContainer(Last(output))
    /\ Last(output).source_range[1] > 0
    /\ Len(Last(output).nodes) = 1
    /\ IsContainer(Last(output).nodes[1])
    /\ Len(Last(output).nodes[1].nodes) = 1

\* C6: range monotonicity: for a stream in source order the top-level nodes
\* have non-decreasing starts and do not overlap.
C6_RangeMonotonicity ==
    (pc = "done" /\ RangesNest /\ InSourceOrder) =>
        \A a \in 1..Len(output) : \A b \in (a + 1)..Len(output) :
            /\ output[a].source_range[1] <= output[b].source_range[1]
            /\ output[a].source_range[2] <= output[b].source_range[1]

\* A leaf followed at top level by a container that holds nodes.
C6_Witness ==
    /\ pc = "done"
    /\ RangesNest
    /\ InSourceOrder
    /\ Len(output) = 2
    /\ ~IsContainer(output[1])
    /\ IsContainer(output[2])
    /\ output[2].nodes # <<>>

\* C7: a text event appends one plain run to the innermost leaf reached from
\* the last node of the current level through the last child of each
\* BlockQuote/List; no container ever holds text and no other node, nor the
\* arrangement of the nodes, changes.
C7_TextToInnermostLeaf ==
    [][(HasNext /\ Cur.type = "Text") =>
          /\ FrameShape(stack') = FrameShape(stack)
          /\ \A n \in NodeTable(stack') : IsContainer(n) => n.text = <<>>
          /\ IF TextTarget = 0
               THEN NodeTable(stack') = NodeTable(stack)
               ELSE LET leaf == NodeOf(stack, TextTarget)
                    IN  NodeTable(stack') =
                          (NodeTable(stack) \ {leaf}) \cup
                          {[leaf EXCEPT !.text =
                               Append(leaf.text, TextNode(Cur.content, "None"))]}
      ]_vars

\* A text event has just been routed through a closed container at the top
\* level to that container's last child.
C7_Witness ==
    /\ pos > 1
    /\ pos <= Len(events) + 1
    /\ events[pos - 1].type = "Text"
    /\ Len(stack) = 1
    /\ Top.nodes # <<>>
    /\ IsContainer(Last(Top.nodes))
    /\ Last(Top.nodes).nodes # <<>>
    /\ Last(Last(Top.nodes).nodes).text = <<TextNode("a", "None")>>

\* The close event of the open event the node was built for has been consumed.
Closed(ev) == Match(ev) < pos

\* C8: no node is mutated after it has been closed: once the close event of
\* a node has been consumed, no later step changes its text, children,
\* variant or range.
C8_ClosedNodesFrozen ==
    [][\A n \in NodeTable(stack) : Closed(n.ev) => n \in NodeTable(stack')]_vars

\* C9: task-marker exclusivity: every list item of the stream appears in the
\* output exactly once; it is a TaskListItem, Checked or Unchecked as the
\* marker says, when a task marker directly follows its open event, and an
\* Item otherwise.
C9_TaskMarkerExclusive ==
    pc = "done" =>
        \A i \in 1..Len(events) :
            (IsOpen(i) /\ events[i].tag = "Item") =>
                LET flat == Flatten(output)
                    occ  == {k \in 1..Len(flat) : flat[k].ev = i}
                IN  /\ Cardinality(occ) = 1
                    /\ \A k \in occ :
                          IF i < Len(events) /\ events[i + 1].type = "TaskListMarker"
                            THEN /\ flat[k].variant = "TaskListItem"
                                 /\ flat[k].kind = IF events[i + 1].checked
                                                     THEN "Checked" ELSE "Unchecked"
                            ELSE flat[k].variant = "Item"

\* A list returned with a checked task item followed by a plain item.
C9_Witness ==
    /\ pc = "done"
    /\ Len(output) = 1
    /\ output[1].variant = "List"
    /\ Len(output[1].nodes) = 2
    /\ output[1].nodes[1].variant = "TaskListItem"
    /\ output[1].nodes[1].kind = "Checked"
    /\ output[1].nodes[2].variant = "Item"

OnlyUnsupported ==
    \A i \in 1..Len(events) :
        \/ events[i].type \in {"Text", "Code", "TaskListMarker", "Other"}
        \/ events[i].type \in {"Start", "End"} /\ events[i].tag \in OtherTags

\* C11: a stream of unsupported constructs only (open/close events of
\* unrecognized tags and the content events inside them) creates no node at
\* any point, nests no level, and returns the empty sequence.
C11_UnsupportedOnlyIsEmpty ==
    OnlyUnsupported => (stack = FreshStack /\ output = <<>>)

\* A table holding text, parsed to the end.
C11_Witness ==
    /\ pc = "done"
    /\ Len(events) = 3
    /\ events[1].type = "Start" /\ events[1].tag = "Table"
    /\ events[2].type = "Text"
    /\ events[3].type = "End" /\ events[3].tag = "Table"
    /\ output = <<>>

\* The run the Text or Code event at position k is turned into.
RunOf(k) ==
    TextNode(events[k].content, IF events[k].type = "Code" THEN "Code" ELSE "None")

\* The runs of the inline events from position k up to the next block event.
RECURSIVE InlineRuns(_)
InlineRuns(k) ==
    IF k > Len(events) \/ events[k].type \notin {"Text", "Code", "Other"}
      THEN <<>>
      ELSE (IF events[k].type = "Other" THEN <<>> ELSE <<RunOf(k)>>)
           \o InlineRuns(k + 1)

IsPrefix(s, t) == Len(s) <= Len(t) /\ SubSeq(t, 1, Len(s)) = s

\* C12: a text or code event that has a target leaf appends exactly one run,
\* with the event's content, at the end of that leaf's runs; the runs
\* already there are kept as they are and no other step touches the runs
\* of a leaf, so the runs of a leaf are the contents of its events in event
\* order: the inline events that follow the open event of a leaf are its
\* first runs, one run each.
C12_OneRunPerEvent ==
    /\ [][\A n \in NodeTable(stack) :
             ~IsContainer(n) =>
                IF HasNext /\ Cur.type \in {"Text", "Code"} /\ TextTarget = n.ev
                  THEN NodeOf(stack', n.ev).text = Append(n.text, RunOf(pos))
                  ELSE NodeOf(stack', n.ev).text = n.text
         ]_vars
    /\ [](pc = "done" =>
             \A k \in 1..Len(Flatten(output)) :
                LET n == Flatten(output)[k]
                IN  ~IsContainer(n) =>
                       IsPrefix(InlineRuns(IF n.variant = "TaskListItem"
                                             THEN n.ev + 2 ELSE n.ev + 1),
                                n.text))

\* A leaf returned with two runs, from a text event and the code event
\* after it.
C12_Witness ==
    /\ pc = "done"
    /\ Len(output) >= 1
    /\ output[1].text = <<TextNode("a", "None"), TextNode("b", "Code")>>
    /\ events[output[1].ev + 1].type = "Text"
    /\ events[output[1].ev + 2].type = "Code"

(***************************************************************************)
(* The Markdown view (src/basalt/src/markdown/view.rs).  A rendered line is *)
(* kept as its kind, the number an ordered item is drawn with, the node it  *)
(* was drawn for and its prefix (a sequence of the pieces "  " and "| ");   *)
(* the wrapped text and the styling of a line are left out.  The list arm   *)
(* of Editor::render_markdown (note_editor/editor.rs) is the same code.     *)
(***************************************************************************)
Line(kind, num, ev, prefix) == [kind |-> kind, num |-> num, ev |-> ev, prefix |-> prefix]

\* The Line::default() chained on when the prefix is empty.
BlankIfTop(prefix) == IF prefix = <<>> THEN <<Line("Blank", 0, 0, <<>>)>> ELSE <<>>

\* MarkdownView::heading
heading(level, ev) ==
    IF level = 1
      THEN <<Line("Blank", 0, 0, <<>>), Line("Heading", 0, ev, <<>>),
             Line("Underline", 0, ev, <<>>), Line("Blank", 0, 0, <<>>)>>
    ELSE IF level = 2
      THEN <<Line("Heading", 0, ev, <<>>), Line("Underline", 0, ev, <<>>)>>
      ELSE <<Line("Heading", 0, ev, <<>>), Line("Blank", 0, 0, <<>>)>>

\* MarkdownView::code_block, every run a single line.
code_block(text, ev) == [k \in 1..Len(text) |-> Line("Code", 0, ev, <<>>)]

\* ItemKind::Ordered(start + i as u64), i the index `enumerate` gives the
\* child among all the children of the list (nodes[i + 1] here).
ItemNumber(start, nodes, i) == start + i

RECURSIVE render_markdown(_, _), ListLines(_, _, _), QuoteLines(_, _, _)
\* MarkdownView::render_markdown
render_markdown(node, prefix) ==
    CASE node.variant = "Paragraph" ->
           <<Line("Paragraph", 0, node.ev, prefix)>> \o BlankIfTop(prefix)
      [] node.variant = "Heading" -> heading(node.level, node.ev)
      [] node.variant = "Item" -> <<Line("Unordered", 0, node.ev, prefix)>>
      [] node.variant = "TaskListItem" -> <<Line("Task", 0, node.ev, prefix)>>
      [] node.variant = "CodeBlock" ->
           <<Line("CodePad", 0, node.ev, <<>>)>> \o code_block(node.text, node.ev)
           \o <<Line("Blank", 0, 0, <<>>)>>
      [] node.variant = "List" -> ListLines(node, 0, prefix) \o BlankIfTop(prefix)
      [] node.variant = "BlockQuote" -> QuoteLines(node, 0, prefix) \o BlankIfTop(prefix)

\* The flat_map over the enumerated children of a List, from index i on.
ListLines(list, i, prefix) ==
    IF i >= Len(list.nodes) THEN <<>>
    ELSE LET child == list.nodes[i + 1]
             drawn ==
               CASE child.variant = "TaskListItem" ->
                      <<Line("Task", 0, child.ev, prefix)>>
                 [] child.variant = "Item" ->
                      IF list.kind = "Ordered"
                        THEN <<Line("Ordered", ItemNumber(list.start, list.nodes, i),
                                    child.ev, prefix)>>
                        ELSE <<Line("Unordered", 0, child.ev, prefix)>>
                 [] OTHER -> render_markdown(child, <<"  ">> \o prefix)
         IN  drawn \o ListLines(list, i + 1, prefix)

\* The children of a BlockQuote, a prefixed line before all but the first.
QuoteLines(quote, i, prefix) ==
    IF i >= Len(quote.nodes) THEN <<>>
    ELSE (IF i # 0 THEN <<Line("Quote", 0, 0, Append(prefix, "| "))>> ELSE <<>>)
         \o render_markdown(quote.nodes[i + 1], Append(prefix, "| "))
         \o QuoteLines(quote, i + 1, prefix)

RECURSIVE RenderAll(_)
RenderAll(nodes) ==
    IF nodes = <<>> THEN <<>>
    ELSE render_markdown(Head(nodes), <<>>) \o RenderAll(Tail(nodes))

\* MarkdownView::render_ref: the text is parsed (the steps of the tree
\* builder) and every top-level node is rendered with an empty prefix.
RenderRef ==
    /\ pc = "done"
    /\ ~view.drawn
    /\ view' = [drawn |-> TRUE, lines |-> RenderAll(output)]
    /\ UNCHANGED <<parserVars, configVars, panelVars, mainVars>>

\* Inputs of the view: one list, ordered from a start number or unordered,
\* of at most MaxItems items: plain, task, with inline code, loose (holding
\* a paragraph), holding a nested list, holding a table.
MaxItems == 3

ListStarts == {<<>>, <<1>>, <<3>>}

ItemPieces ==
    {<<DocStart("Item", <<0, 2>>), TextEv("a"), EndEv("Item")>>,
     <<DocStart("Item", <<0, 2>>), TaskEv(TRUE), TextEv("a"), EndEv("Item")>>,
     <<DocStart("Item", <<0, 2>>), CodeEv("b"), OtherEv, EndEv("Item")>>,
     <<DocStart("Item", <<0, 2>>), DocStart("Paragraph", <<1, 2>>), TextEv("a"),
       EndEv("Paragraph"), EndEv("Item")>>,
     <<DocStart("Item", <<0, 2>>), TextEv("a"), DocStart("List", <<1, 2>>),
       DocStart("Item", <<1, 2>>), TextEv("a"), EndEv("Item"), EndEv("List"),
       EndEv("Item")>>,
     <<DocStart("Item", <<0, 2>>), DocStart("Table", <<1, 2>>), TextEv("a"),
       EndEv("Table"), EndEv("Item")>>}

RECURSIVE Concat(_)
Concat(ss) == IF ss = <<>> THEN <<>> ELSE Head(ss) \o Concat(Tail(ss))

ViewDocs ==
    {<<StartEv("List", 0, "", s, <<0, 2>>)>> \o Concat(ps) \o <<EndEv("List")>> :
        s \in ListStarts, ps \in SeqsUpTo(ItemPieces, MaxItems)}

\* A document of the view, or one cut off before the close of its list.
ViewStreams == ViewDocs \cup {SubSeq(d, 1, Len(d) - 1) : d \in ViewDocs}

InitView ==
    /\ \E s \in ViewStreams : Begin(s) /\ calls = 1 /\ memo = NoMemo
    /\ NoView
    /\ NoPanels
    /\ NoMain
    /\ NoConfig

NextView == Step \/ RenderRef

\* A list document parsed and drawn by the view.
SpecView == InitView /\ [][NextView]_vars

\* The Item children of a list node, in order.
ItemsOf(list) == SelectSeq(list.nodes, LAMBDA c : c.variant = "Item")

LineOf(ev) == CHOOSE l \in {view.lines[k] : k \in 1..Len(view.lines)} : l.ev = ev

\* C13: in the rendering of an ordered list with start number s the first
\* list item is drawn with index s and every later list item with the index
\* of the list item before it plus one, whatever other children (task
\* items, nested lists, paragraphs) the list holds between them.
C13_ItemsNumberedConsecutively ==
    view.drawn =>
        \A k \in 1..Len(Flatten(output)) :
            LET list == Flatten(output)[k]
            IN  (list.variant = "List" /\ list.kind = "Ordered") =>
                    \A j \in 1..Len(ItemsOf(list)) :
                        /\ LineOf(ItemsOf(list)[j].ev).kind = "Ordered"
                        /\ LineOf(ItemsOf(list)[j].ev).num = list.start + j - 1

\* C14: a code-span event is routed like a text event (to the innermost
\* leaf under the last node of the current level) and appends a run with
\* Style::Code; the run a text event appends has no style; nothing else in
\* the tree changes.
C14_CodeRoutedLikeText ==
    [][(HasNext /\ Cur.type \in {"Text", "Code"}) =>
          /\ FrameShape(stack') = FrameShape(stack)
          /\ IF TextTarget = 0
               THEN NodeTable(stack') = NodeTable(stack)
               ELSE LET leaf  == NodeOf(stack, TextTarget)
                        style == IF Cur.type = "Code" THEN "Code" ELSE "None"
                    IN  NodeTable(stack') =
                          (NodeTable(stack) \ {leaf}) \cup
                          {[leaf EXCEPT !.text =
                               Append(leaf.text, [content |-> Cur.content,
                                                  style |-> style])]}
      ]_vars

\* A code event has just been routed through a closed container at the top
\* level to that container's last child.
C14_Witness ==
    /\ pos > 1
    /\ pos <= Len(events) + 1
    /\ events[pos - 1].type = "Code"
    /\ Len(stack) = 1
    /\ Top.nodes # <<>>
    /\ IsContainer(Last(Top.nodes))
    /\ Last(Top.nodes).nodes # <<>>
    /\ Last(Last(Top.nodes).nodes).text = <<TextNode("b", "Code")>>

(***************************************************************************)
(* Configuration (src/basalt/src/config.rs).                                *)
(***************************************************************************)
\* BTreeMap::insert
Insert(bindings, key, message) ==
    {p \in bindings : p[1] # key} \cup {<<key, message>>}

\* BTreeMap::get
Get(bindings, key) ==
    IF \E p \in bindings : p[1] = key
      THEN <<(CHOOSE p \in bindings : p[1] = key)[2]>>
      ELSE <<>>

KeysOf(bindings) == {p[1] : p \in bindings}

\* A merge that keeps the entry `self` already has for a key.
RECURSIVE merge_keep_existing(_, _)
merge_keep_existing(self, config) ==
    IF config = {} THEN self
    ELSE LET p == CHOOSE q \in config : TRUE
         IN  merge_keep_existing(
                 IF p[1] \in KeysOf(self) THEN self ELSE Insert(self, p[1], p[2]),
                 config \ {p})

\* ConfigSection::merge_key_bindings: every entry of `config` is inserted
\* into self.key_bindings.
RECURSIVE merge_key_bindings(_, _)
merge_key_bindings(self, config) ==
    IF config = {} THEN self
    ELSE LET p == CHOOSE q \in config : TRUE
         IN  merge_key_bindings(Insert(self, p[1], p[2]), config \ {p})

\* Config::merge
merge(self, config) ==
    [experimental_editor |-> config.experimental_editor,
     global |-> merge_key_bindings(self.global, config.global),
     explorer |-> merge_key_bindings(self.explorer, config.explorer),
     splash |-> merge_key_bindings(self.splash, config.splash),
     note_editor |-> merge_key_bindings(self.note_editor, config.note_editor),
     help_modal |-> merge_key_bindings(self.help_modal, config.help_modal),
     vault_selector_modal |->
         merge_key_bindings(self.vault_selector_modal, config.vault_selector_modal)]

SectionNames == {"global", "splash", "explorer", "help_modal", "note_editor",
                 "vault_selector_modal"}

Section(config, name) ==
    CASE name = "global" -> config.global
      [] name = "splash" -> config.splash
      [] name = "explorer" -> config.explorer
      [] name = "help_modal" -> config.help_modal
      [] name = "note_editor" -> config.note_editor
      [] name = "vault_selector_modal" -> config.vault_selector_modal

\* Inputs of merge: the keys as Key::to_string writes them, a few messages.
MergeKeys == {"control-c", "q"}

MergeMessages == {"Quit", "HelpModal(Toggle)"}

\* Every map from a subset of the keys to the messages.
BindingsOver(keys, messages) ==
    UNION {{{<<k, f[k]>> : k \in ks} : f \in [ks -> messages]} : ks \in SUBSET keys}

MergeConfigs ==
    {[DefaultConfig EXCEPT !.experimental_editor = e, !.global = g, !.explorer = x] :
        e \in BOOLEAN,
        g \in BindingsOver(MergeKeys, MergeMessages),
        x \in BindingsOver({"q"}, MergeMessages)}

MaxMerges == 2

InitMerge ==
    /\ Begin(<<>>) /\ calls = 1 /\ memo = NoMemo
    /\ NoView
    /\ NoPanels
    /\ NoMain
    /\ \E a \in MergeConfigs, b \in MergeConfigs :
          /\ base_config = a
          /\ config0 = a
          /\ user_config = b
    /\ user_file = <<>>
    /\ loaded = <<>>
    /\ merges = 0

\* base_config.merge(user_config), the same user_config every time.
MergeConfig ==
    /\ merges < MaxMerges
    /\ base_config' = merge(base_config, user_config)
    /\ merges' = merges + 1
    /\ UNCHANGED <<parserVars, viewVars, panelVars, mainVars, user_config, user_file, loaded, config0>>

NextMerge == MergeConfig

\* Config::merge called up to MaxMerges times with the same argument.
SpecMerge == InitMerge /\ [][NextMerge]_vars

\* C16: after a.merge(b) every section binds each key of b to b's message
\* and each key only a binds to a's message, and binds no other key;
\* merging the same b again changes nothing.
C16_MergeOverwritesConflictsOnly ==
    /\ [](merges >= 1 =>
            \A name \in SectionNames :
               LET a   == Section(config0, name)
                   b   == Section(user_config, name)
                   got == Section(base_config, name)
               IN  /\ KeysOf(got) = KeysOf(a) \cup KeysOf(b)
                   /\ \A k \in KeysOf(b) : Get(got, k) = Get(b, k)
                   /\ \A k \in KeysOf(a) \ KeysOf(b) : Get(got, k) = Get(a, k)
                   /\ Cardinality(got) = Cardinality(KeysOf(got)))
    /\ [][merges >= 1 => base_config' = base_config]_vars

\* Merged twice: b has overwritten a's other message for Ctrl+C, the key
\* only a binds has kept its message.
C16_Witness ==
    /\ merges = 2
    /\ Get(config0.global, "control-c") = <<"HelpModal(Toggle)">>
    /\ Get(user_config.global, "control-c") = <<"Quit">>
    /\ Get(config0.global, "q") = <<"HelpModal(Toggle)">>
    /\ Get(user_config.global, "q") = <<>>
    /\ Get(base_config.global, "control-c") = <<"Quit">>
    /\ Get(base_config.global, "q") = <<"HelpModal(Toggle)">>

(***************************************************************************)
(* Keys (src/basalt/src/config/key_binding.rs) and config::load.  A key as  *)
(* written in a configuration file is kept as its pieces between the '+'    *)
(* signs; a KeyCode is kept as the character of KeyCode::Char or the name   *)
(* of the variant.                                                          *)
(***************************************************************************)
\* Key { modifiers, code }
Key(modifiers, code) == [modifiers |-> modifiers, code |-> code]

\* Key::CTRL_C
CTRL_C == Key({"CONTROL"}, "c")

\* str::to_lowercase, on the pieces the inputs are written with.
to_lowercase(s) ==
    CASE s = "Control" -> "control"
      [] s = "Ctrl" -> "ctrl"
      [] s = "C" -> "c"
      [] s = "Esc" -> "esc"
      [] OTHER -> s

\* parse_modifiers
parse_modifiers(modifiers) ==
    CASE modifiers = "" -> [ok |-> TRUE, flags |-> {}]
      [] modifiers = "alt" -> [ok |-> TRUE, flags |-> {"ALT"}]
      [] modifiers \in {"ctrl", "control"} -> [ok |-> TRUE, flags |-> {"CONTROL"}]
      [] modifiers = "hyper" -> [ok |-> TRUE, flags |-> {"HYPER"}]
      [] modifiers = "meta" -> [ok |-> TRUE, flags |-> {"META"}]
      [] modifiers = "shift" -> [ok |-> TRUE, flags |-> {"SHIFT"}]
      [] modifiers = "super" -> [ok |-> TRUE, flags |-> {"SUPER"}]
      [] OTHER -> [ok |-> FALSE, flags |-> {}]

\* parse_code, without the function keys.
parse_code(code) ==
    CASE Len(code) = 0 -> [ok |-> TRUE, code |-> "Null"]
      [] Len(code) = 1 -> [ok |-> TRUE, code |-> code]
      [] code = "esc" -> [ok |-> TRUE, code |-> "Esc"]
      [] code = "space" -> [ok |-> TRUE, code |-> " "]
      [] code = "enter" -> [ok |-> TRUE, code |-> "Enter"]
      [] code = "tab" -> [ok |-> TRUE, code |-> "Tab"]
      [] OTHER -> [ok |-> FALSE, code |-> ""]

\* KeyVisitor::visit_str: the value in lower case, the last piece the code,
\* the pieces before it modifiers.
visit_str(value) ==
    LET parts == [k \in 1..Len(value) |-> to_lowercase(value[k])]
        code  == parse_code(parts[Len(parts)])
        mods  == [k \in 1..(Len(parts) - 1) |-> parse_modifiers(parts[k])]
    IN  IF code.ok /\ \A k \in 1..Len(mods) : mods[k].ok
          THEN [ok |-> TRUE,
                key |-> Key(UNION {mods[k].flags : k \in 1..Len(mods)}, code.code)]
          ELSE [ok |-> FALSE, key |-> Key({}, "")]

\* Display of KeyModifiers (crossterm): the names of the flags set, joined
\* by '+'; here already in lower case.
ModifierNames == <<"shift", "control", "alt", "super", "hyper", "meta">>

ModifierFlags == <<"SHIFT", "CONTROL", "ALT", "SUPER", "HYPER", "META">>

RECURSIVE ModifiersToString(_, _)
ModifiersToString(flags, k) ==
    IF k > Len(ModifierFlags) THEN ""
    ELSE LET rest == ModifiersToString(flags, k + 1)
         IN  IF ModifierFlags[k] \notin flags THEN rest
             ELSE IF rest = "" THEN ModifierNames[k]
             ELSE ModifierNames[k] \o "+" \o rest

\* Display of KeyCode (crossterm), in lower case with '_' for ' '.
CodeToString(code) ==
    CASE code = " " -> "space"
      [] code = "Esc" -> "esc"
      [] code = "Enter" -> "enter"
      [] code = "Tab" -> "tab"
      [] code = "Null" -> "null"
      [] OTHER -> to_lowercase(code)

\* Display for Key (Key::to_string)
KeyToString(key) ==
    IF key.modifiers = {} THEN CodeToString(key.code)
    ELSE ModifiersToString(key.modifiers, 1) \o "-" \o CodeToString(key.code)

\* ConfigSection::key_to_message
key_to_message(section, key) == Get(section, KeyToString(key))

\* From<Command> for Message
CommandToMessage(command) ==
    CASE command = "quit" -> "Quit"
      [] command = "help_modal_toggle" -> "HelpModal(Toggle)"
      [] command = "explorer_up" -> "Explorer(Up)"

\* From<TomlConfigSection> for ConfigSection: the bindings collected into the
\* map in their order, a later binding of a key replacing an earlier one.
RECURSIVE ConfigSectionFrom(_)
ConfigSectionFrom(key_bindings) ==
    IF key_bindings = <<>> THEN NoBindings
    ELSE LET n == Len(key_bindings)
         IN  Insert(ConfigSectionFrom(SubSeq(key_bindings, 1, n - 1)),
                    KeyToString(visit_str(key_bindings[n].key).key),
                    CommandToMessage(key_bindings[n].command))

\* A configuration file with its [global] and [explorer] sections.
TomlText(global, explorer) == [global |-> global, explorer |-> explorer]

\* toml::from_str::<TomlConfig> followed by Config::from: an error when a
\* key of the text does not parse.
from_str(text) ==
    IF \A k \in 1..Len(text.global \o text.explorer) :
           visit_str((text.global \o text.explorer)[k].key).ok
      THEN [ok |-> TRUE,
            config |-> [DefaultConfig EXCEPT
                           !.global = ConfigSectionFrom(text.global),
                           !.explorer = ConfigSectionFrom(text.explorer)]]
      ELSE [ok |-> FALSE, config |-> DefaultConfig]

\* read_user_config: no file, or the file parsed.
read_user_config ==
    IF user_file = <<>> THEN [ok |-> FALSE, config |-> DefaultConfig]
    ELSE from_str(user_file[1])

system_key_binding_overrides == {<<KeyToString(CTRL_C), "Quit">>}

\* A load that applies the system overrides before the user configuration.
load_overrides_first(base, user) ==
    IF ~from_str(base).ok THEN [ok |-> FALSE, config |-> DefaultConfig]
    ELSE LET base_parsed == from_str(base).config
             overridden  == [base_parsed EXCEPT !.global =
                                merge_key_bindings(base_parsed.global,
                                                   system_key_binding_overrides)]
         IN  [ok |-> TRUE,
              config |-> IF user.ok THEN merge(overridden, user.config)
                         ELSE overridden]

\* config::load, `base` the text of BASE_CONFIGURATION_STR and `user` the
\* outcome of read_user_config.
load(base, user) ==
    IF ~from_str(base).ok THEN [ok |-> FALSE, config |-> DefaultConfig]
    ELSE LET base_parsed == from_str(base).config
             merged      == IF user.ok THEN merge(base_parsed, user.config)
                            ELSE base_parsed
         IN  [ok |-> TRUE,
              config |-> [merged EXCEPT !.global =
                             merge_key_bindings(merged.global,
                                                system_key_binding_overrides)]]

\* Inputs of load.  Keys as a file may write them: Ctrl+C in three
\* spellings, Ctrl+C with Shift, a plain key, a named key, and one with an
\* unknown modifier.
Spellings ==
    {<<"ctrl", "c">>, <<"Control", "C">>, <<"control", "c">>, <<"shift", "ctrl", "c">>,
     <<"q">>, <<"Esc">>, <<"cmd", "c">>}

KeyBinding(key, command) == [key |-> key, command |-> command]

UserBindings ==
    {KeyBinding(k, c) : k \in Spellings, c \in {"quit", "help_modal_toggle"}}

MaxBindings == 2

UserTomls ==
    {TomlText(g, x) :
        g \in SeqsUpTo(UserBindings, MaxBindings),
        x \in {<<>>, <<KeyBinding(<<"ctrl", "c">>, "explorer_up")>>}}

\* The embedded config.toml: with and without a binding of Ctrl+C, and one
\* that does not parse.
BaseTomls ==
    {TomlText(<<>>, <<>>),
     TomlText(<<KeyBinding(<<"q">>, "quit"),
                KeyBinding(<<"ctrl", "c">>, "help_modal_toggle")>>,
              <<KeyBinding(<<"q">>, "explorer_up")>>),
     TomlText(<<KeyBinding(<<"ctrl", "c">>, "quit")>>, <<>>),
     TomlText(<<KeyBinding(<<"cmd", "c">>, "quit")>>, <<>>)}

InitLoad ==
    /\ Begin(<<>>) /\ calls = 1 /\ memo = NoMemo
    /\ NoView
    /\ NoPanels
    /\ NoMain
    /\ base_config = DefaultConfig
    /\ user_config = DefaultConfig
    /\ user_file \in {<<>>} \cup {<<t>> : t \in UserTomls}
    /\ loaded = <<>>
    /\ merges = 0
    /\ config0 = DefaultConfig

\* config::load()
Load ==
    /\ loaded = <<>>
    /\ \E base \in BaseTomls :
          /\ loaded' = <<load(base, read_user_config)>>
          /\ config0' = from_str(base).config
          /\ base_config' = load(base, read_user_config).config
    /\ user_config' = read_user_config.config
    /\ UNCHANGED <<parserVars, viewVars, panelVars, mainVars, user_file, merges>>

NextLoad == Load

\* One call of config::load.
SpecLoad == InitLoad /\ [][NextLoad]_vars

\* C15: after config::load has succeeded the global section binds Ctrl+C to
\* Message::Quit, whatever the base and the user configuration bind it to.
C15_CtrlCQuits ==
    (loaded # <<>> /\ loaded[1].ok) =>
        key_to_message(loaded[1].config.global, CTRL_C) = <<"Quit">>

\* Loaded with a base and a user configuration that both bind Ctrl+C in the
\* global section to another message.
C15_Witness ==
    /\ loaded # <<>>
    /\ loaded[1].ok
    /\ key_to_message(config0.global, CTRL_C) = <<"HelpModal(Toggle)">>
    /\ user_file # <<>>
    /\ user_file[1].global = <<KeyBinding(<<"Control", "C">>, "help_modal_toggle")>>
    /\ key_to_message(user_config.global, CTRL_C) = <<"HelpModal(Toggle)">>
    /\ key_to_message(loaded[1].config.global, CTRL_C) = <<"Quit">>

(***************************************************************************)
(* Streams whose open events differ in what they carry: heading levels,     *)
(* start numbers of lists, kinds of block quotes, ranges.                   *)
(***************************************************************************)
TagStartEvents ==
    {StartEv("Paragraph", 0, "", <<>>, <<0, 2>>),
     StartEv("Heading", 1, "", <<>>, <<0, 2>>),
     StartEv("Heading", 3, "", <<>>, <<1, 2>>),
     StartEv("CodeBlock", 0, "", <<>>, <<1, 2>>),
     StartEv("Item", 0, "", <<>>, <<0, 2>>),
     StartEv("BlockQuote", 0, "None", <<>>, <<0, 2>>),
     StartEv("BlockQuote", 0, "Note", <<>>, <<1, 2>>),
     StartEv("List", 0, "", <<>>, <<0, 2>>),
     StartEv("List", 0, "", <<1>>, <<1, 2>>),
     StartEv("List", 0, "", <<3>>, <<0, 2>>),
     StartEv("Table", 0, "", <<>>, <<0, 2>>)}

\* TagEnd::List(true): the close event of an ordered list.
EndOrderedList == [EndEv("List") EXCEPT !.kind = "Ordered"]

TagEventSet ==
    TagStartEvents \cup EndEvents \cup {EndOrderedList}
    \cup {TextEv("a"), CodeEv("b"), TaskEv(TRUE), OtherEv}

TagStreams == SeqsUpTo(TagEventSet, MaxLen)

InitTags ==
    /\ \E s \in TagStreams : Begin(s) /\ calls = 1 /\ memo = NoMemo
    /\ NoView
    /\ NoPanels
    /\ NoMain
    /\ NoConfig

\* Arbitrary streams of at most MaxLen events over TagEventSet.
SpecTags == InitTags /\ [][Next]_vars

\* The frames below the top one.
Below(st) == SubSeq(st, 1, Len(st) - 1)

\* The node a recognized open event stands for, but for its children.
NodeMatchesOpen(n, e) ==
    /\ n.variant = e.tag
    /\ n.source_range = e.range
    /\ n.text = <<>>
    /\ n.level = (IF e.tag = "Heading" THEN e.level ELSE 0)
    /\ e.tag = "List" =>
          /\ (n.kind = "Ordered") <=> (e.start # <<>>)
          /\ (n.kind = "Unordered") <=> (e.start = <<>>)
          /\ e.start # <<>> => n.start = e.start[1]
    /\ e.tag = "BlockQuote" => n.kind = e.kind

\* C17: the open event of a heading, paragraph, code block or item appends
\* exactly one node to the current level, of the event's variant, range and
\* heading level, with empty text.  The open event of a list or block quote
\* opens a level, and the return of that level appends exactly one node to
\* the level that opened it: of the event's variant and range, Ordered(start)
\* iff the event has a start number, holding the nodes built in between.
\* Nothing else changes.
C17_OpenAppendsOneNode ==
    [][/\ (HasNext /\ Cur.type = "Start" /\ Cur.tag \in LeafTags) =>
            /\ Len(stack') = Len(stack)
            /\ Below(stack') = Below(stack)
            /\ Len(Last(stack').nodes) = Len(Top.nodes) + 1
            /\ SubSeq(Last(stack').nodes, 1, Len(Top.nodes)) = Top.nodes
            /\ NodeMatchesOpen(Last(Last(stack').nodes), Cur)
            /\ Last(Last(stack').nodes).nodes = <<>>
       /\ (HasNext /\ Cur.type = "Start" /\ Cur.tag \in ContainerTags) =>
            /\ Len(stack') = Len(stack) + 1
            /\ Below(stack') = stack
            /\ Last(stack').nodes = <<>>
       /\ Len(stack') = Len(stack) - 1 =>
            /\ Below(stack') = Below(Below(stack))
            /\ Len(Last(stack').nodes) = Len(stack[Len(stack) - 1].nodes) + 1
            /\ SubSeq(Last(stack').nodes, 1, Len(stack[Len(stack) - 1].nodes))
                  = stack[Len(stack) - 1].nodes
            /\ NodeMatchesOpen(Last(Last(stack').nodes), events[Top.ev])
            /\ Last(Last(stack').nodes).nodes = Top.nodes
      ]_vars

\* An ordered list that starts at 3 has returned to the top level with the
\* level-3 heading built inside it.
C17_Witness ==
    /\ Len(stack) = 1
    /\ Len(Top.nodes) = 1
    /\ Top.nodes[1].variant = "List"
    /\ Top.nodes[1].kind = "Ordered"
    /\ Top.nodes[1].start = 3
    /\ Len(Top.nodes[1].nodes) = 1
    /\ Top.nodes[1].nodes[1].variant = "Heading"
    /\ Top.nodes[1].nodes[1].level = 3
    /\ Top.nodes[1].nodes[1].source_range = <<1, 2>>

\* C18: a close event ends the current level exactly when the level was
\* opened by a block quote or list and the close event is of that kind
\* (block quote for block quote, list for list); every other close event
\* (of a heading, paragraph, code block, item or unrecognized tag, of the
\* other container kind, or at the top level) leaves the tree and the
\* nesting as they are.
C18_CloseEndsOwnLevelOnly ==
    [][(HasNext /\ Cur.type = "End") =>
          IF Len(stack) > 1 /\ Cur.tag = events[Top.ev].tag
            THEN Len(stack') = Len(stack) - 1
            ELSE stack' = stack
      ]_vars

\* Inside a block quote that holds a node, the close event of a list has
\* been consumed and the level is still open.
C18_Witness ==
    /\ pos > 1
    /\ pos <= Len(events) + 1
    /\ events[pos - 1].type = "End"
    /\ events[pos - 1].tag = "List"
    /\ Len(stack) = 2
    /\ Top.current_tag.tag = "BlockQuote"
    /\ Top.ev = 1
    /\ Len(Top.nodes) = 1

\* C19: the top-level call returns only when the stream is exhausted, with
\* no level left open; while an event is left, every step consumes exactly
\* the next event of the stream and does not return, also the step by which
\* a nested level returns; a step at exhaustion consumes nothing; and a step
\* is the work of one level: the levels below the caller of the acting level
\* are not touched.
C19_ConsumedOnceInOrder ==
    /\ [](pc = "done" => (pos = Len(events) + 1 /\ Len(stack) = 1))
    /\ [][/\ IF HasNext THEN pos' = pos + 1 /\ pc' = "run" ELSE pos' = pos
          /\ events' = events
          /\ \A i \in 1..(Len(stack) - 2) : i <= Len(stack') /\ stack'[i] = stack[i]
         ]_vars

\* Returned from a stream in which a nested level was closed by its close
\* event and another node followed it.
C19_Witness ==
    /\ pc = "done"
    /\ Len(events) = 3
    /\ OpensContainer(1)
    /\ events[2].type = "End" /\ events[2].tag = events[1].tag
    /\ Recognized(3)
    /\ Len(output) = 2
    /\ output[1].ev = 1
    /\ output[2].ev = 3

\* An event of the `_` arm of parse_events, or an open event of a tag that
\* parse_tag does not recognize.
IsIgnoredEvent(e) ==
    \/ e.type = "Other"
    \/ e.type = "Start" /\ e.tag \notin LeafTags \cup ContainerTags

\* C20: an event that is neither a recognized open event, a close event,
\* text, a code span nor a task marker (a break, HTML, math, a rule, a
\* footnote reference, the open event of an unrecognized tag) is a no-op:
\* the nodes built so far and the nesting are the same after it.
C20_IgnoredEventsAreNoOps ==
    [][(HasNext /\ IsIgnoredEvent(Cur)) => (stack' = stack /\ output' = output)]_vars

\* A break and the open event of a table have been consumed after a
\* paragraph was opened, and the paragraph is all there is.
C20_Witness ==
    /\ pos = 4
    /\ events[1].type = "Start" /\ events[1].tag = "Paragraph"
    /\ events[2].type = "Other"
    /\ events[3].type = "Start" /\ events[3].tag = "Table"
    /\ Len(stack) = 1
    /\ Len(Top.nodes) = 1
    /\ Top.nodes[1].text = <<>>

\* The open events of the nodes below a node.
DescendantEvs(n) == {Flatten(n.nodes)[k].ev : k \in 1..Len(Flatten(n.nodes))}

\* The nodes of the output built for the open event i.
NodesFor(i) == {k \in 1..Len(Flatten(output)) : Flatten(output)[k].ev = i}

\* C21: when the stream ends with block quotes or lists still open, every
\* open level returns (a step is left until the top level has returned, and
\* then no level is open); each unclosed container is in the output exactly
\* once and holds every node opened after it; every node opened before the
\* end of the stream is in the output exactly once.
C21_UnclosedContainersEmitted ==
    /\ (pc = "run" /\ pos > Len(events)) => ENABLED Next
    /\ pc = "done" =>
          /\ Len(stack) = 1
          /\ \A i \in 1..Len(events) :
                Recognized(i) => Cardinality(NodesFor(i)) = 1
          /\ \A i \in 1..Len(events) :
                (OpensContainer(i) /\ Match(i) > Len(events)) =>
                    \A k \in NodesFor(i) :
                        DescendantEvs(Flatten(output)[k]) =
                            {j \in (i + 1)..Len(events) : Recognized(j)}

\* A stream cut off inside a list inside a block quote: both are returned,
\* the list with its item inside the block quote.
C21_Witness ==
    /\ pc = "done"
    /\ Len(events) >= 3
    /\ OpensContainer(1) /\ Match(1) > Len(events)
    /\ OpensContainer(2) /\ Match(2) > Len(events)
    /\ Len(output) = 1
    /\ Len(output[1].nodes) = 1
    /\ output[1].nodes[1].ev = 2
    /\ Len(output[1].nodes[1].nodes) >= 1

(***************************************************************************)
(* Streams with task markers anywhere: at most MaxMarkerLen events, among   *)
(* them markers after a closed list, after a leaf that is no item, and      *)
(* with no node at all.                                                     *)
(***************************************************************************)
MaxMarkerLen == 4

MarkerEventSet ==
    {StartEv("List", 0, "", <<>>, <<0, 2>>),
     StartEv("Item", 0, "", <<>>, <<0, 2>>),
     StartEv("Paragraph", 0, "", <<>>, <<1, 2>>),
     StartEv("Table", 0, "", <<>>, <<1, 2>>),
     EndEv("List"), TextEv("a"), CodeEv("b"), TaskEv(TRUE), OtherEv}

MarkerStreams == SeqsUpTo(MarkerEventSet, MaxMarkerLen)

InitMarker ==
    /\ \E s \in MarkerStreams : Begin(s) /\ calls = 1 /\ memo = NoMemo
    /\ NoView
    /\ NoPanels
    /\ NoMain
    /\ NoConfig

\* Arbitrary streams of at most MaxMarkerLen events over MarkerEventSet.
SpecMarker == InitMarker /\ [][Next]_vars

OpenedInItem(i) ==
    {j \in (i + 1)..(Match(i) - 1) : Recognized(j) /\ Parent(j) = Parent(i)}

\* Every child sequence of the tree: the top level and each node's children.
ChildSeqs(nodes) == {nodes} \cup {Flatten(nodes)[k].nodes : k \in 1..Len(Flatten(nodes))}

\* C24: a List, BlockQuote or leaf opened between an item's open and close
\* events is no child of the item: Item and TaskListItem nodes have no child
\* nodes, and the nodes opened inside the item follow it directly, in stream
\* order, in the child sequence the item is in.
C24_NestedNodesAreNextSiblings ==
    pc = "done" =>
        \A s \in ChildSeqs(output) : \A k \in 1..Len(s) :
            s[k].variant \in {"Item", "TaskListItem"} =>
                /\ s[k].nodes = <<>>
                /\ LET inside == OpenedInItem(s[k].ev)
                       n == Cardinality(inside)
                   IN  /\ k + n <= Len(s)
                       /\ {s[k + d].ev : d \in 1..n} = inside
                       /\ \A d \in 1..(n - 1) : s[k + d].ev < s[k + d + 1].ev

\* A list whose item holds a block quote that holds a paragraph: the block
\* quote is the second child of the list.
C24_Witness ==
    /\ pc = "done"
    /\ Len(output) = 1
    /\ output[1].variant = "List"
    /\ Len(output[1].nodes) = 2
    /\ output[1].nodes[1].variant \in {"Item", "TaskListItem"}
    /\ output[1].nodes[2].variant = "BlockQuote"
    /\ output[1].nodes[2].ev < Match(output[1].nodes[1].ev)
    /\ Match(output[1].nodes[1].ev) <= Len(events)

(***************************************************************************)
(* The outline of a note (src/basalt/src/outline/state.rs, item.rs): the   *)
(* headings among the top-level nodes of the note, as a tree of Items.     *)
(* Indices and ranges count from 0 as in the code; a Range a..b is the      *)
(* pair <<a, b>>; None is <<>> and Some(x) is <<x>>.                         *)
(***************************************************************************)
MaxNodes == 3

\* String::from(&Text): the contents of the text runs, one after the other.
RECURSIVE TextToString(_)
TextToString(text) ==
    IF text = <<>> THEN "" ELSE Head(text).content \o TextToString(Tail(text))

\* struct Heading { index, level, content }
Heading(index, level, content) ==
    [index |-> index, level |-> level, content |-> content]

\* struct HeadingEntry { range, level, content, children }
HeadingEntry(range, level, content, children) ==
    [range |-> range, level |-> level, content |-> content, children |-> children]

\* A filter that keeps the headings of the first level only.
RECURSIVE to_headings_h1_only(_, _)
to_headings_h1_only(nodes, k) ==
    IF k > Len(nodes) THEN <<>>
    ELSE (IF nodes[k].variant = "Heading" /\ nodes[k].level = 1
            THEN <<Heading(k - 1, nodes[k].level, TextToString(nodes[k].text))>>
            ELSE <<>>)
         \o to_headings_h1_only(nodes, k + 1)

\* NodesAsHeadings::to_headings, from the k-th node on: enumerate and
\* filter_map, keeping the Heading nodes with their index.
RECURSIVE to_headings_from(_, _)
to_headings_from(nodes, k) ==
    IF k > Len(nodes) THEN <<>>
    ELSE (IF nodes[k].variant = "Heading"
            THEN <<Heading(k - 1, nodes[k].level, TextToString(nodes[k].text))>>
            ELSE <<>>)
         \o to_headings_from(nodes, k + 1)

to_headings(nodes) == to_headings_from(nodes, 1)

\* A loop that also stops at a heading of the parent's own level only when
\* it is above it.
breaks_strict(parent_level, next_heading) ==
    parent_level # <<>> /\ next_heading.level < parent_level[1]

\* `parent_level.is_some_and(|parent_level| next_heading.level <= parent_level)`
breaks(parent_level, next_heading) ==
    parent_level # <<>> /\ next_heading.level <= parent_level[1]

\* Every range running to the end of the note.
range_end_max(headings, p, max_end) == max_end

\* range_end of the heading at position p: the index of the heading after
\* it in the note, max_end when it is the last.
range_end(headings, p, max_end) ==
    IF p + 1 <= Len(headings) THEN headings[p + 1].index ELSE max_end

\* build_outline_tree_rec, the peekable iterator being the position p in
\* `headings`: the entries of one level and the position the iterator is
\* left at.  One unfolding is one iteration of the while loop.
RECURSIVE build_outline_tree_rec(_, _, _, _)
build_outline_tree_rec(headings, p, parent_level, max_end) ==
    IF p > Len(headings) THEN [result |-> <<>>, p |-> p]
    ELSE IF breaks(parent_level, headings[p]) THEN [result |-> <<>>, p |-> p]
    ELSE LET taken == headings[p]
             sub == IF p + 1 <= Len(headings) /\ headings[p + 1].level > taken.level
                      THEN build_outline_tree_rec(headings, p + 1, <<taken.level>>, max_end)
                      ELSE [result |-> <<>>, p |-> p + 1]
             entry == HeadingEntry(<<taken.index, range_end(headings, p, max_end)>>,
                                   taken.level, taken.content, sub.result)
             rest == build_outline_tree_rec(headings, sub.p, parent_level, max_end)
         IN  [result |-> <<entry>> \o rest.result, p |-> rest.p]

build_outline_tree(headings, max_end) ==
    build_outline_tree_rec(headings, 1, <<>>, max_end).result

\* enum Item { Heading { range, content }, HeadingEntry { range, content,
\* children, expanded } } in one record shape.
OutlineItem(kind, range, content, children, expanded) ==
    [kind |-> kind, range |-> range, content |-> content,
     children |-> children, expanded |-> expanded]

\* From<HeadingEntry> for Item
RECURSIVE ItemFrom(_)
ItemFrom(value) ==
    IF value.children = <<>>
      THEN OutlineItem("Heading", value.range, value.content, <<>>, FALSE)
      ELSE OutlineItem("HeadingEntry", value.range, value.content,
                       [k \in 1..Len(value.children) |-> ItemFrom(value.children[k])],
                       FALSE)

\* HeadingsAsItems::to_items
to_items(headings, max_end) ==
    LET tree == build_outline_tree(headings, max_end)
    IN  [k \in 1..Len(tree) |-> ItemFrom(tree[k])]

\* Item::contains_index
contains_index(item, index) == item.range[1] <= index /\ index < item.range[2]

\* fn flatten(item) and Flatten::flatten for Vec<Item>: an item, followed by
\* the flattened children when it is an expanded HeadingEntry.
RECURSIVE flatten(_), FlattenItems(_)
flatten(item) ==
    IF item.kind = "HeadingEntry" /\ item.expanded
      THEN <<item>> \o FlattenItems(item.children)
      ELSE <<item>>

FlattenItems(items) ==
    IF items = <<>> THEN <<>> ELSE flatten(Head(items)) \o FlattenItems(Tail(items))

\* FindItem::find_item: the first flattened item whose range contains index,
\* with its position.
find_item(items, index) ==
    LET flat == FlattenItems(items)
        hits == {i \in 1..Len(flat) : contains_index(flat[i], index)}
    IN  IF hits = {} THEN <<>>
        ELSE LET i == CHOOSE i \in hits : \A j \in hits : i <= j
             IN  <<<<i - 1, flat[i]>>>>

\* OutlineState::toggle_item_in_tree
RECURSIVE toggle_item_in_tree(_, _, _)
toggle_item_in_tree(item, target_range, should_toggle) ==
    IF item.kind = "HeadingEntry"
      THEN [item EXCEPT
              !.expanded = IF item.range = target_range /\ should_toggle
                             THEN ~item.expanded ELSE item.expanded,
              !.children = [k \in 1..Len(item.children) |->
                               toggle_item_in_tree(item.children[k], target_range,
                                                   should_toggle)]]
      ELSE item

\* OutlineState::expanded_to_all_items
RECURSIVE expanded_to_all_items(_, _)
expanded_to_all_items(items, expanded) ==
    [k \in 1..Len(items) |->
        IF items[k].kind = "HeadingEntry"
          THEN [items[k] EXCEPT !.expanded = expanded,
                                !.children = expanded_to_all_items(@, expanded)]
          ELSE items[k]]

SaturatingSub(a, b) == IF a >= b THEN a - b ELSE 0

Min(a, b) == IF a <= b THEN a ELSE b

\* OutlineState::select_at
OutlineState_select_at(self, index) ==
    LET found == find_item(self.items, index)
        selected_item_index == IF found = <<>> THEN <<>> ELSE <<found[1][1]>>
    IN  [self EXCEPT !.selected_item_index = selected_item_index,
                     !.list_state.selected = selected_item_index]

\* OutlineState::expand_all
OutlineState_expand_all(self) ==
    [self EXCEPT !.items = expanded_to_all_items(self.items, TRUE)]

\* OutlineState::collapse_all
OutlineState_collapse_all(self) ==
    [self EXCEPT !.items = expanded_to_all_items(self.items, FALSE)]

\* OutlineState::new
OutlineState_new(nodes, index, open) ==
    LET headings == to_headings(nodes)
    IN  OutlineState_expand_all(
            OutlineState_select_at(
                [NoOutline EXCEPT !.open = open,
                                  !.max_heading_count = Len(headings),
                                  !.items = to_items(headings, Len(nodes))],
                index))

\* OutlineState::set_nodes
OutlineState_set_nodes(self, nodes) ==
    LET headings == to_headings(nodes)
    IN  OutlineState_expand_all(
            [self EXCEPT !.max_heading_count = Len(headings),
                         !.items = to_items(headings, Len(nodes))])

\* OutlineState::selected
OutlineState_selected(self) ==
    LET flat == FlattenItems(self.items)
    IN  IF self.list_state.selected # <<>>
              /\ self.list_state.selected[1] + 1 <= Len(flat)
          THEN <<flat[self.list_state.selected[1] + 1]>>
          ELSE <<>>

\* OutlineState::toggle_item
OutlineState_toggle_item(self) ==
    LET index == IF self.list_state.selected = <<>> THEN 0
                 ELSE self.list_state.selected[1]
        items == FlattenItems(self.items)
    IN  IF index + 1 <= Len(items) /\ items[index + 1].kind = "HeadingEntry"
          THEN [self EXCEPT !.items =
                   [k \in 1..Len(self.items) |->
                       toggle_item_in_tree(self.items[k], items[index + 1].range, TRUE)]]
          ELSE self

\* OutlineState::next
OutlineState_next(self, amount) ==
    LET index == IF self.list_state.selected = <<>> THEN 0
                 ELSE Min(self.list_state.selected[1] + amount,
                          SaturatingSub(self.max_heading_count, 1))
    IN  [self EXCEPT !.list_state.selected = <<index>>]

\* OutlineState::previous
OutlineState_previous(self, amount) ==
    [self EXCEPT !.list_state.selected =
        IF @ = <<>> THEN <<>> ELSE <<SaturatingSub(@[1], amount)>>]

(***************************************************************************)
(* The outline panel: notes of at most MaxNodes top-level nodes, each a     *)
(* paragraph or a heading of one of three levels, and the calls made on     *)
(* the OutlineState of the note.                                            *)
(***************************************************************************)
OutlineNodeSet ==
    {Node("Paragraph", 0, "", 0, <<TextNode("a", "None")>>, <<>>, NoRange, 0)}
    \cup {Node("Heading", HeadingLevelFrom(l), "", 0, <<TextNode("a", "None")>>,
               <<>>, NoRange, 0) : l \in 1..3}

OutlineNodeSeqs == SeqsUpTo(OutlineNodeSet, MaxNodes)

Amounts == 1..2

InitOutline ==
    /\ Begin(<<>>) /\ calls = 1 /\ memo = NoMemo
    /\ NoView
    /\ NoPanels
    /\ NoMain
    /\ NoConfig

\* OutlineState::new(nodes, index, open)
OutlineNew ==
    /\ ~outline_state.made
    /\ \E nodes \in OutlineNodeSeqs, index \in 0..MaxNodes, open \in BOOLEAN :
          /\ index <= Len(nodes)
          /\ outline_state' = [OutlineState_new(nodes, index, open) EXCEPT
                                  !.made = TRUE, !.nodes = nodes, !.index = index]
    /\ UNCHANGED <<parserVars, viewVars, configVars, explorer_state, mainVars>>

\* The note after an edit: a node more at its end, or its last node gone.
\* Every note of OutlineNodeSeqs is some edits away from every other.
Edits(nodes) ==
    {Append(nodes, n) : n \in {x \in OutlineNodeSet : Len(nodes) < MaxNodes}}
    \cup {SubSeq(nodes, 1, Len(nodes) - 1) : k \in {x \in {1} : nodes # <<>>}}

\* state.set_nodes(nodes), nodes the note after an edit.  set_nodes reads of
\* the state it is called on the selection only, which it keeps.
OutlineSetNodes ==
    /\ outline_state.made
    /\ \E nodes \in Edits(outline_state.nodes) :
          outline_state' = [OutlineState_set_nodes(outline_state, nodes) EXCEPT
                              !.nodes = nodes]
    /\ UNCHANGED <<parserVars, viewVars, configVars, explorer_state, mainVars>>

\* state.toggle_item()
OutlineToggleItem ==
    /\ outline_state.made
    /\ outline_state' = OutlineState_toggle_item(outline_state)
    /\ UNCHANGED <<parserVars, viewVars, configVars, explorer_state, mainVars>>

\* state.expand_all()
OutlineExpandAll ==
    /\ outline_state.made
    /\ outline_state' = OutlineState_expand_all(outline_state)
    /\ UNCHANGED <<parserVars, viewVars, configVars, explorer_state, mainVars>>

\* state.collapse_all()
OutlineCollapseAll ==
    /\ outline_state.made
    /\ outline_state' = OutlineState_collapse_all(outline_state)
    /\ UNCHANGED <<parserVars, viewVars, configVars, explorer_state, mainVars>>

\* state.next(amount)
OutlineNext ==
    /\ outline_state.made
    /\ \E amount \in Amounts :
          outline_state' = OutlineState_next(outline_state, amount)
    /\ UNCHANGED <<parserVars, viewVars, configVars, explorer_state, mainVars>>

\* state.previous(amount)
OutlinePrevious ==
    /\ outline_state.made
    /\ \E amount \in Amounts :
          outline_state' = OutlineState_previous(outline_state, amount)
    /\ UNCHANGED <<parserVars, viewVars, configVars, explorer_state, mainVars>>

NextOutline ==
    \/ OutlineNew
    \/ OutlineSetNodes
    \/ OutlineToggleItem
    \/ OutlineExpandAll
    \/ OutlineCollapseAll
    \/ OutlineNext
    \/ OutlinePrevious

\* OutlineState::new on any note, then any calls on the state.
SpecOutline == InitOutline /\ [][NextOutline]_vars

(***************************************************************************)
(* Properties of the outline.                                               *)
(***************************************************************************)
\* The indices (from 0) of the Heading nodes of the note.
HeadingIndices(nodes) == {k - 1 : k \in {j \in 1..Len(nodes) : nodes[j].variant = "Heading"}}

\* The items of the outline with every entry expanded, in pre-order.
AllItems == FlattenItems(expanded_to_all_items(outline_state.items, TRUE))

\* C25: the fully expanded, flattened outline holds the headings of the
\* note, each once and in document order, and nothing else, whatever the
\* levels of the headings are.
C25_OutlineHoldsHeadingsInOrder ==
    outline_state.made =>
        LET nodes == outline_state.nodes
        IN  /\ Len(AllItems) = Cardinality(HeadingIndices(nodes))
            /\ \A k \in 1..Len(AllItems) :
                  /\ AllItems[k].range[1] \in HeadingIndices(nodes)
                  /\ AllItems[k].content = TextToString(nodes[AllItems[k].range[1] + 1].text)
            /\ \A k \in 1..(Len(AllItems) - 1) :
                  AllItems[k].range[1] < AllItems[k + 1].range[1]

\* A note whose headings skip a level and then go back up: H1, H3, H2.
C25_Witness ==
    /\ outline_state.made
    /\ Len(outline_state.nodes) = 3
    /\ \A k \in 1..3 : outline_state.nodes[k].variant = "Heading"
    /\ outline_state.nodes[1].level = 1
    /\ outline_state.nodes[2].level = 3
    /\ outline_state.nodes[3].level = 2
    /\ Len(AllItems) = 3

\* The pairs <<heading, parent>> of a forest of items, each heading named by
\* the start of its range, the parent of a root being -1.
RECURSIVE ParentPairs(_, _)
ParentPairs(items, parent) ==
    UNION {{<<items[k].range[1], parent>>}
           \cup ParentPairs(items[k].children, items[k].range[1]) : k \in 1..Len(items)}

\* The nearest heading before the one at index i with a smaller level; -1
\* when there is none.
NearestAbove(nodes, i) ==
    LET above == {j \in HeadingIndices(nodes) :
                     j < i /\ nodes[j + 1].level < nodes[i + 1].level}
    IN  IF above = {} THEN -1 ELSE CHOOSE j \in above : \A k \in above : k <= j

\* C26: the parent of a heading in the outline is the nearest heading before
\* it with a strictly smaller level; a heading with none is a root.
C26_ParentIsNearestSmallerLevel ==
    outline_state.made =>
        ParentPairs(outline_state.items, -1) =
            {<<i, NearestAbove(outline_state.nodes, i)>> :
                i \in HeadingIndices(outline_state.nodes)}

\* H1, H3, H2: the H2 comes after a deeper heading and is a child of the H1.
C26_Witness ==
    /\ outline_state.made
    /\ Len(outline_state.nodes) = 3
    /\ \A k \in 1..3 : outline_state.nodes[k].variant = "Heading"
    /\ outline_state.nodes[1].level = 1
    /\ outline_state.nodes[2].level = 3
    /\ outline_state.nodes[3].level = 2
    /\ ParentPairs(outline_state.items, -1) = {<<0, -1>>, <<1, 0>>, <<2, 0>>}

\* C27: after OutlineState::new(nodes, index, open), when index lies in the
\* section of a heading, selected() is the item whose range contains index.
C27_NewSelectsSectionOfIndex ==
    [][(~outline_state.made /\ outline_state'.made) =>
          LET self == outline_state'
              all == FlattenItems(expanded_to_all_items(self.items, TRUE))
          IN  (\E k \in 1..Len(all) : contains_index(all[k], self.index)) =>
                  /\ OutlineState_selected(self) # <<>>
                  /\ contains_index(OutlineState_selected(self)[1], self.index)
      ]_vars

\* C28: the ranges of the fully expanded, flattened items partition the node
\* indices from the first heading to the end of the note: each range starts
\* at its heading and ends where the next starts, the last at nodes.len().
C28_RangesPartitionTheNote ==
    outline_state.made =>
        LET nodes == outline_state.nodes
        IN  /\ \A k \in 1..Len(AllItems) :
                  /\ nodes[AllItems[k].range[1] + 1].variant = "Heading"
                  /\ AllItems[k].range[2] =
                        IF k < Len(AllItems) THEN AllItems[k + 1].range[1] ELSE Len(nodes)
            /\ \A i \in 0..(Len(nodes) - 1) :
                  Cardinality({k \in 1..Len(AllItems) : contains_index(AllItems[k], i)})
                      = IF \E j \in HeadingIndices(nodes) : j <= i THEN 1 ELSE 0

\* A heading, a heading nested under it, and a paragraph in the section of
\* the nested heading.
C28_Witness ==
    /\ outline_state.made
    /\ Len(outline_state.nodes) = 3
    /\ outline_state.nodes[1].variant = "Heading"
    /\ outline_state.nodes[2].variant = "Heading"
    /\ outline_state.nodes[2].level > outline_state.nodes[1].level
    /\ outline_state.nodes[3].variant = "Paragraph"
    /\ Len(AllItems) = 2
    /\ AllItems[1].range = <<0, 1>>
    /\ AllItems[2].range = <<1, 3>>

\* C29: a selection index that is set is smaller than the number of visible
\* (flattened) items.
C29_SelectionIsVisible ==
    (outline_state.made /\ outline_state.list_state.selected # <<>>) =>
        outline_state.list_state.selected[1] < Len(FlattenItems(outline_state.items))

(***************************************************************************)
(* The file explorer (src/basalt/src/explorer/state.rs, item.rs).  A name   *)
(* is the sequence of its characters and a path the sequence of its         *)
(* components; None is <<>> and Some(x) is <<x>>.                            *)
(***************************************************************************)
MaxEntries == 2

\* char::to_lowercase on the letters the names are written with.
CharToLowercase(c) ==
    CASE c = "A" -> "a"
      [] c = "B" -> "b"
      [] c = "C" -> "c"
      [] c = "D" -> "d"
      [] OTHER -> c

\* The code point of a letter.
CharCode(c) ==
    CASE c = "A" -> 65
      [] c = "B" -> 66
      [] c = "C" -> 67
      [] c = "D" -> 68
      [] c = "a" -> 97
      [] c = "b" -> 98
      [] c = "c" -> 99
      [] c = "d" -> 100

\* A name left as it is written.
NameAsWritten(name) == name

\* str::to_lowercase of a name.
NameToLowercase(name) == [k \in 1..Len(name) |-> CharToLowercase(name[k])]

\* Ord::cmp of two strings: by the first character they differ in, a proper
\* prefix being less.
RECURSIVE StrCmp(_, _)
StrCmp(a, b) ==
    IF a = <<>> /\ b = <<>> THEN "Equal"
    ELSE IF a = <<>> THEN "Less"
    ELSE IF b = <<>> THEN "Greater"
    ELSE IF CharCode(Head(a)) < CharCode(Head(b)) THEN "Less"
    ELSE IF CharCode(Head(a)) > CharCode(Head(b)) THEN "Greater"
    ELSE StrCmp(Tail(a), Tail(b))

\* VaultEntry::File(Note { name, path }) and VaultEntry::Directory { name,
\* path, entries } in one record shape.
VaultEntry(kind, name, path, entries) ==
    [kind |-> kind, name |-> name, path |-> path, entries |-> entries]

\* enum Item { File(Note), Directory { name, path, expanded, items } } in
\* one record shape.
ExplorerItem(kind, name, path, expanded, items) ==
    [kind |-> kind, name |-> name, path |-> path, expanded |-> expanded,
     items |-> items]

\* From<VaultEntry> for Item
RECURSIVE ExplorerItemFrom(_)
ExplorerItemFrom(value) ==
    IF value.kind = "File"
      THEN ExplorerItem("File", value.name, value.path, FALSE, <<>>)
      ELSE ExplorerItem("Directory", value.name, value.path, FALSE,
                        [k \in 1..Len(value.entries) |-> ExplorerItemFrom(value.entries[k])])

\* Item::is_dir
is_dir(item) == item.kind = "Directory"

\* A comparison of the names as they are written.
sort_items_by_case_sensitive(sort, a, b) ==
    IF is_dir(a) /\ ~is_dir(b) THEN "Less"
    ELSE IF ~is_dir(a) /\ is_dir(b) THEN "Greater"
    ELSE IF sort = "Asc" THEN StrCmp(NameAsWritten(a.name), NameAsWritten(b.name))
    ELSE StrCmp(NameAsWritten(b.name), NameAsWritten(a.name))

\* sort_items_by(sort)(a, b)
sort_items_by(sort, a, b) ==
    IF is_dir(a) /\ ~is_dir(b) THEN "Less"
    ELSE IF ~is_dir(a) /\ is_dir(b) THEN "Greater"
    ELSE IF sort = "Asc" THEN StrCmp(NameToLowercase(a.name), NameToLowercase(b.name))
    ELSE StrCmp(NameToLowercase(b.name), NameToLowercase(a.name))

\* slice::sort_by(sort_items_by(sort)): a stable sort, here by insertion of
\* each item behind the items that are not greater.
RECURSIVE sort_by(_, _)
sort_by(items, sort) ==
    IF items = <<>> THEN <<>>
    ELSE LET n == Len(items)
             sorted == sort_by(SubSeq(items, 1, n - 1), sort)
             x == items[n]
             k == Cardinality({i \in 1..(n - 1) :
                                  sort_items_by(sort, sorted[i], x) # "Greater"})
         IN  SubSeq(sorted, 1, k) \o <<x>> \o SubSeq(sorted, k + 1, n - 1)

\* flatten(sort, depth)(item), and its flat_map over a sequence of items.
RECURSIVE explorer_flatten(_, _, _), explorer_flat_map(_, _, _)
explorer_flatten(sort, depth, item) ==
    IF is_dir(item) /\ item.expanded
      THEN <<<<item, depth>>>>
           \o explorer_flat_map(sort, depth + 1, sort_by(item.items, sort))
      ELSE <<<<item, depth>>>>

explorer_flat_map(sort, depth, items) ==
    IF items = <<>> THEN <<>>
    ELSE explorer_flatten(sort, depth, Head(items))
         \o explorer_flat_map(sort, depth, Tail(items))

\* ExplorerState::flatten_with_sort
flatten_with_sort(self, sort) ==
    LET items == sort_by(self.items, sort)
    IN  [self EXCEPT !.flat_items = explorer_flat_map(sort, 0, items),
                     !.items = items,
                     !.sort = sort]

\* ExplorerState::flatten_with_items
flatten_with_items(self, given) ==
    LET items == sort_by(given, self.sort)
    IN  [self EXCEPT !.flat_items = explorer_flat_map(self.sort, 0, items),
                     !.items = items]

\* ExplorerState::new
ExplorerState_new(title, entries) ==
    flatten_with_items(
        [NoExplorer EXCEPT !.title = title, !.sort = "Asc", !.open = TRUE,
                           !.list_state.selected = <<0>>],
        [k \in 1..Len(entries) |-> ExplorerItemFrom(entries[k])])

\* ExplorerState::sort
ExplorerState_sort(self) ==
    flatten_with_sort(self, IF self.sort = "Asc" THEN "Desc" ELSE "Asc")

\* ExplorerState::toggle_item_in_tree
RECURSIVE explorer_toggle_item_in_tree(_, _)
explorer_toggle_item_in_tree(item, identifier) ==
    IF is_dir(item)
      THEN [item EXCEPT
              !.expanded = IF item.path = identifier THEN ~item.expanded
                           ELSE item.expanded,
              !.items = [k \in 1..Len(item.items) |->
                            explorer_toggle_item_in_tree(item.items[k], identifier)]]
      ELSE item

\* ExplorerState::select
ExplorerState_select(self) ==
    IF self.list_state.selected = <<>> THEN self
    ELSE LET selected_item_index == self.list_state.selected[1]
         IN  IF selected_item_index + 1 > Len(self.flat_items) THEN self
             ELSE LET current_item == self.flat_items[selected_item_index + 1][1]
                  IN  IF is_dir(current_item)
                        THEN flatten_with_items(self,
                                 [k \in 1..Len(self.items) |->
                                     explorer_toggle_item_in_tree(self.items[k],
                                                                  current_item.path)])
                        ELSE [self EXCEPT
                                !.selected_note = <<[name |-> current_item.name,
                                                     path |-> current_item.path]>>,
                                !.selected_item_index = <<selected_item_index>>,
                                !.selected_item_path = <<current_item.path>>]

\* ExplorerState::next
ExplorerState_next(self, amount) ==
    [self EXCEPT !.list_state.selected =
        IF @ = <<>> THEN <<>>
        ELSE <<Min(@[1] + amount, SaturatingSub(Len(self.flat_items), 1))>>]

\* ExplorerState::previous
ExplorerState_previous(self, amount) ==
    [self EXCEPT !.list_state.selected =
        IF @ = <<>> THEN <<>> ELSE <<SaturatingSub(@[1], amount)>>]

(***************************************************************************)
(* The explorer panel: vaults of at most MaxEntries entries, each a file    *)
(* or a directory; a directory is empty, holds two files, or holds a file   *)
(* and a directory with a file in it.  The names of one directory differ,   *)
(* and the path of an entry is the path of its directory and its name.      *)
(***************************************************************************)
FileNames == {<<"a">>, <<"B">>}

DirNames == {<<"c">>, <<"D">>}

FileEntry(name, parent) == VaultEntry("File", name, Append(parent, name), <<>>)

DirEntry(name, parent, entries) ==
    VaultEntry("Directory", name, Append(parent, name), entries)

DistinctNames(s) == \A i, j \in 1..Len(s) : i # j => s[i].name # s[j].name

\* What a directory of the vault holds, in the order the vault gives it.
DirEntrySeqs(p) ==
    {<<>>,
     <<FileEntry(<<"B">>, p), FileEntry(<<"a">>, p)>>,
     <<FileEntry(<<"a">>, p),
       DirEntry(<<"c">>, p, <<FileEntry(<<"a">>, Append(p, <<"c">>))>>)>>}

TopEntries ==
    {FileEntry(n, <<>>) : n \in FileNames}
    \cup UNION {{DirEntry(n, <<>>, e) : e \in DirEntrySeqs(<<n>>)} : n \in DirNames}

Vaults == {s \in SeqsUpTo(TopEntries, MaxEntries) : DistinctNames(s)}

InitExplorer ==
    /\ Begin(<<>>) /\ calls = 1 /\ memo = NoMemo
    /\ NoView
    /\ NoPanels
    /\ NoMain
    /\ NoConfig

\* ExplorerState::new(title, items)
ExplorerNew ==
    /\ ~explorer_state.made
    /\ \E entries \in Vaults :
          explorer_state' = [ExplorerState_new("vault", entries) EXCEPT !.made = TRUE]
    /\ UNCHANGED <<parserVars, viewVars, configVars, outline_state, mainVars>>

\* state.select()
ExplorerSelect ==
    /\ explorer_state.made
    /\ explorer_state' = ExplorerState_select(explorer_state)
    /\ UNCHANGED <<parserVars, viewVars, configVars, outline_state, mainVars>>

\* state.sort()
ExplorerSort ==
    /\ explorer_state.made
    /\ explorer_state' = ExplorerState_sort(explorer_state)
    /\ UNCHANGED <<parserVars, viewVars, configVars, outline_state, mainVars>>

\* state.next(amount)
ExplorerNext ==
    /\ explorer_state.made
    /\ \E amount \in Amounts :
          explorer_state' = ExplorerState_next(explorer_state, amount)
    /\ UNCHANGED <<parserVars, viewVars, configVars, outline_state, mainVars>>

\* state.previous(amount)
ExplorerPrevious ==
    /\ explorer_state.made
    /\ \E amount \in Amounts :
          explorer_state' = ExplorerState_previous(explorer_state, amount)
    /\ UNCHANGED <<parserVars, viewVars, configVars, outline_state, mainVars>>

NextExplorer ==
    \/ ExplorerNew
    \/ ExplorerSelect
    \/ ExplorerSort
    \/ ExplorerNext
    \/ ExplorerPrevious

\* ExplorerState::new on any vault, then any calls on the state.
SpecExplorer == InitExplorer /\ [][NextExplorer]_vars

\* The directory an entry is in.
ParentPath(path) == SubSeq(path, 1, Len(path) - 1)

\* The paths of the items whose directory, and every directory above it, is
\* expanded.
RECURSIVE VisiblePaths(_)
VisiblePaths(items) ==
    UNION {{items[k].path}
           \cup (IF is_dir(items[k]) /\ items[k].expanded
                   THEN VisiblePaths(items[k].items) ELSE {}) : k \in 1..Len(items)}

\* C30: in flat_items the entries of one directory come directories first,
\* then files, each group by lower-cased name, ascending for Asc and
\* descending for Desc; and flat_items holds, once each, exactly the items
\* whose directory and all directories above it are expanded.
C30_FlatItemsSortedAndExpanded ==
    explorer_state.made =>
        LET flat == explorer_state.flat_items
            Lower(k) == NameToLowercase(flat[k][1].name)
        IN  /\ \A i \in 1..Len(flat) : \A j \in (i + 1)..Len(flat) :
                  ParentPath(flat[i][1].path) = ParentPath(flat[j][1].path) =>
                      /\ ~(~is_dir(flat[i][1]) /\ is_dir(flat[j][1]))
                      /\ is_dir(flat[i][1]) = is_dir(flat[j][1]) =>
                            IF explorer_state.sort = "Asc"
                              THEN StrCmp(Lower(i), Lower(j)) # "Greater"
                              ELSE StrCmp(Lower(i), Lower(j)) # "Less"
            /\ {flat[k][1].path : k \in 1..Len(flat)} = VisiblePaths(explorer_state.items)
            /\ Cardinality({flat[k][1].path : k \in 1..Len(flat)}) = Len(flat)
            /\ \A k \in 1..Len(flat) : flat[k][2] = Len(flat[k][1].path) - 1

\* Sorted descending after calls of sort and select: a directory and the
\* directory in it are expanded, the file of the inner one is listed, and
\* the vault holds a file next to the directory.
C30_Witness ==
    /\ explorer_state.made
    /\ explorer_state.sort = "Desc"
    /\ Len(explorer_state.flat_items) = 5
    /\ is_dir(explorer_state.flat_items[1][1])
    /\ explorer_state.flat_items[1][1].expanded
    /\ explorer_state.flat_items[2][2] = 1
    /\ is_dir(explorer_state.flat_items[2][1])
    /\ explorer_state.flat_items[3][2] = 2
    /\ explorer_state.flat_items[4][2] = 1
    /\ ~is_dir(explorer_state.flat_items[5][1])
    /\ explorer_state.flat_items[5][2] = 0
    /\ explorer_state.selected_note # <<>>

(***************************************************************************)
(* The scroll offset of the explorer.                                       *)
(***************************************************************************)
MaxHeight == 2

Heights == 1..MaxHeight

\* calculate_offset
calculate_offset(row, items_count, window_height) ==
    LET half == window_height \div 2
    IN  IF row + half > SaturatingSub(items_count, 1)
          THEN SaturatingSub(items_count, window_height)
          ELSE SaturatingSub(row, half)

\* An update that counts the displayed rows.
update_offset_mut_flat(self, window_height) ==
    IF self.items # <<>>
      THEN LET idx == IF self.list_state.selected = <<>> THEN 0
                      ELSE self.list_state.selected[1]
               items_count == Len(self.flat_items)
           IN  [self EXCEPT !.list_state.offset =
                   calculate_offset(idx, items_count, window_height)]
      ELSE self

\* ExplorerState::update_offset_mut
update_offset_mut(self, window_height) ==
    IF self.items # <<>>
      THEN LET idx == IF self.list_state.selected = <<>> THEN 0
                      ELSE self.list_state.selected[1]
               items_count == Len(self.items)
           IN  [self EXCEPT !.list_state.offset =
                   calculate_offset(idx, items_count, window_height)]
      ELSE self

\* state.update_offset_mut(window_height), as the explorer is drawn.
ExplorerUpdateOffset ==
    /\ explorer_state.made
    /\ \E window_height \in Heights :
          explorer_state' =
              [update_offset_mut(explorer_state, window_height) EXCEPT
                  !.window_height = window_height]
    /\ UNCHANGED <<parserVars, viewVars, configVars, outline_state, mainVars>>

NextExplorerOffset == NextExplorer \/ ExplorerUpdateOffset

\* The explorer with its redraws.
SpecExplorerOffset == InitExplorer /\ [][NextExplorerOffset]_vars

\* C31: after update_offset_mut(h), h > 0, on a non-empty explorer, the rows
\* offset .. offset + h - 1 contain the selected row, and reach past the
\* last displayed row only when there are fewer than h rows.  Checked at
\* every call that is given another height than the call before.
C31_WindowHoldsSelection ==
    [][(explorer_state.made
          /\ explorer_state'.window_height # explorer_state.window_height
          /\ explorer_state'.items # <<>>
          /\ explorer_state'.list_state.selected # <<>>) =>
          LET h == explorer_state'.window_height
              offset == explorer_state'.list_state.offset
              row == explorer_state'.list_state.selected[1]
              rows == Len(explorer_state'.flat_items)
          IN  /\ offset <= row
              /\ row < offset + h
              /\ offset + h > rows => rows < h
      ]_vars

(***************************************************************************)
(* The note editor (src/basalt/src/note_editor).  A text is the sequence of *)
(* its characters, a letter or a line feed; offsets into a text count from  *)
(* 0 as the byte offsets of the code do.                                    *)
(***************************************************************************)
MaxContent == 5

MaxBuffer == 3

NL == "\n"

\* &text[from..to]
StrSlice(text, from, to) == SubSeq(text, from + 1, to)

\* The offset of the first line feed at or after offset, or the length.
LineEnd(text, offset) ==
    LET feeds == {q \in offset..(Len(text) - 1) : text[q + 1] = NL}
    IN  IF feeds = {} THEN Len(text)
        ELSE CHOOSE q \in feeds : \A r \in feeds : q <= r

\* str::lines: the lines of a text, without their line feeds; a last line
\* feed opens no line.
RECURSIVE LinesFrom(_, _)
LinesFrom(text, offset) ==
    IF offset >= Len(text) THEN <<>>
    ELSE LET e == LineEnd(text, offset)
         IN  <<StrSlice(text, offset, e)>> \o LinesFrom(text, e + 1)

str_lines(text) == LinesFrom(text, 0)

\* [..].join(separator)
RECURSIVE str_join(_, _)
str_join(parts, separator) ==
    IF parts = <<>> THEN <<>>
    ELSE IF Len(parts) = 1 THEN parts[1]
    ELSE parts[1] \o separator \o str_join(Tail(parts), separator)

\* str::trim().is_empty(): the text has line feeds only.
IsBlank(text) == \A k \in 1..Len(text) : text[k] = NL

\* markdown_parser::from_str on a text of letters and line feeds: each run
\* of non-empty lines is a Paragraph, and its source range runs from its
\* first letter to the end of its last line, the line feed included; its
\* text is one TextNode a line.
RECURSIVE ParagraphEnd(_, _)
ParagraphEnd(text, offset) ==
    LET e == LineEnd(text, offset)
        next == Min(e + 1, Len(text))
    IN  IF next < Len(text) /\ text[next + 1] # NL
          THEN ParagraphEnd(text, next)
          ELSE next

RECURSIVE ParagraphsFrom(_, _)
ParagraphsFrom(text, offset) ==
    IF offset >= Len(text) THEN <<>>
    ELSE IF text[offset + 1] = NL THEN ParagraphsFrom(text, offset + 1)
    ELSE LET e == ParagraphEnd(text, offset)
         IN  <<Node("Paragraph", 0, "", <<>>,
                    [k \in 1..Len(str_lines(StrSlice(text, offset, e))) |->
                        TextNode(str_lines(StrSlice(text, offset, e))[k], "")],
                    <<>>,
                    <<offset, e>>, 0)>>
             \o ParagraphsFrom(text, e)

markdown_parser_from_str(text) == ParagraphsFrom(text, 0)

\* TextBuffer::from: the text area of the lines of a text, one empty line
\* when there is none, the cursor at its start.
TextBuffer_from(text) ==
    [lines |-> IF str_lines(text) = <<>> THEN <<<<>>>> ELSE str_lines(text),
     cursor |-> <<0, 0>>, modified |-> FALSE]

\* TextBuffer's Display: the lines joined by line feeds.
TextBuffer_to_string(self) == str_join(self.lines, <<NL>>)

\* The cursor of a text area moved to the nearest place of its lines.
Jump(self, row, col) ==
    LET r == Min(row, Len(self.lines) - 1)
    IN  [self EXCEPT !.cursor = <<r, Min(col, Len(self.lines[r + 1]))>>]

\* TextBuffer::with_cursor_position
with_cursor_position(self, position) == Jump(self, position[1], position[2])

\* TextBuffer::cursor_move
cursor_move(self, move) ==
    LET row == self.cursor[1]
        col == self.cursor[2]
        last == Len(self.lines) - 1
        width == Len(self.lines[row + 1])
    IN  CASE move = "Top" -> Jump(self, 0, col)
          [] move = "Bottom" -> Jump(self, last, col)
          [] move = "Up" -> IF row = 0 THEN self ELSE Jump(self, row - 1, col)
          [] move = "Down" -> IF row = last THEN self ELSE Jump(self, row + 1, col)
          [] move = "Left" ->
               IF col > 0 THEN Jump(self, row, col - 1)
               ELSE IF row > 0 THEN Jump(self, row - 1, Len(self.lines[row]))
               ELSE self
          [] move = "Right" ->
               IF col < width THEN Jump(self, row, col + 1)
               ELSE IF row < last THEN Jump(self, row + 1, 0)
               ELSE self
          [] move = "WordForward" ->
               IF col < width THEN Jump(self, row, width)
               ELSE IF row < last THEN Jump(self, row + 1, 0)
               ELSE self
          [] move = "WordBackward" ->
               IF col > 0 THEN Jump(self, row, 0)
               ELSE IF row > 0 THEN Jump(self, row - 1, Len(self.lines[row]))
               ELSE self

\* The lines of a text area with one line replaced by some lines.
ReplaceLine(lines, row, by) ==
    SubSeq(lines, 1, row) \o by \o SubSeq(lines, row + 2, Len(lines))

\* TextBuffer::edit: the input of a letter, of Enter or of Backspace to the
\* text area; modified tells whether the input has changed the text.
TextBuffer_edit(self, input) ==
    LET row == self.cursor[1]
        col == self.cursor[2]
        line == self.lines[row + 1]
    IN  CASE input = "Enter" ->
               [lines |-> ReplaceLine(self.lines, row,
                              <<SubSeq(line, 1, col),
                                SubSeq(line, col + 1, Len(line))>>),
                cursor |-> <<row + 1, 0>>, modified |-> TRUE]
          [] input = "Backspace" ->
               IF col > 0
                 THEN [lines |-> ReplaceLine(self.lines, row,
                                     <<SubSeq(line, 1, col - 1)
                                       \o SubSeq(line, col + 1, Len(line))>>),
                       cursor |-> <<row, col - 1>>, modified |-> TRUE]
               ELSE IF row > 0
                 THEN [lines |-> SubSeq(self.lines, 1, row - 1)
                                 \o <<self.lines[row] \o line>>
                                 \o SubSeq(self.lines, row + 2, Len(self.lines)),
                       cursor |-> <<row - 1, Len(self.lines[row])>>,
                       modified |-> TRUE]
               ELSE [self EXCEPT !.modified = FALSE]
          [] OTHER ->
               [lines |-> ReplaceLine(self.lines, row,
                              <<SubSeq(line, 1, col) \o <<input>>
                                \o SubSeq(line, col + 1, Len(line))>>),
                cursor |-> <<row, col + 1>>, modified |-> TRUE]

\* EditorState::update_text_buffer
update_text_buffer(self) ==
    IF self.current_row < Len(self.nodes)
      THEN LET node == self.nodes[self.current_row + 1]
               node_content == StrSlice(self.content, node.source_range[1],
                                        node.source_range[2])
           IN  [self EXCEPT !.text_buffer =
                   with_cursor_position(TextBuffer_from(node_content),
                                        self.text_buffer.cursor)]
      ELSE self

\* EditorState::update_text_buffer_content
update_text_buffer_content(self, content) ==
    LET text_buffer_content == TextBuffer_to_string(self.text_buffer)
        col == self.text_buffer.cursor[2]
    IN  [self EXCEPT !.text_buffer =
            with_cursor_position(
                TextBuffer_from(content \o <<NL>> \o text_buffer_content),
                <<Len(str_lines(content)) + 1, col>>)]

\* EditorState::set_content
EditorState_set_content(self, content) ==
    update_text_buffer([self EXCEPT !.nodes = markdown_parser_from_str(content),
                                    !.content_original = content,
                                    !.content = content])

\* EditorState::set_path
EditorState_set_path(self, path) == [self EXCEPT !.path = path]

\* EditorState::set_mode
EditorState_set_mode(self, mode) == [self EXCEPT !.mode = mode]

\* EditorState::set_active
EditorState_set_active(self, active) == [self EXCEPT !.active = active]

\* EditorState::intermediate_save
intermediate_save(self) ==
    IF self.current_row < Len(self.nodes)
      THEN LET node == self.nodes[self.current_row + 1]
               start == node.source_range[1]
               end == node.source_range[2]
               str_start == StrSlice(self.content, 0, SaturatingSub(start, 1))
               str_end == StrSlice(self.content, end, Len(self.content))
               modified_str == TextBuffer_to_string(self.text_buffer)
               complete_modified_content ==
                   str_join(<<str_start, modified_str, str_end>>, <<NL>>)
               saved == IF self.content # complete_modified_content
                          THEN update_text_buffer(
                                   [self EXCEPT
                                       !.nodes = markdown_parser_from_str(
                                                     complete_modified_content),
                                       !.content = complete_modified_content])
                          ELSE self
           IN  [saved EXCEPT !.modified = saved.content # saved.content_original]
      ELSE self

\* EditorState::exit_insert
EditorState_exit_insert(self) == intermediate_save(self)

\* EditorState::delete_char
EditorState_delete_char(self) ==
    LET row == self.text_buffer.cursor[1]
        col == self.text_buffer.cursor[2]
        current_row == self.current_row
    IN  IF row = 0 /\ col = 0 /\ IsBlank(TextBuffer_to_string(self.text_buffer))
          THEN intermediate_save(self)
        ELSE IF row = 0 /\ col = 0 /\ current_row # 0
          THEN IF current_row < Len(self.nodes)
                 THEN LET current_node_range_end ==
                              self.nodes[current_row + 1].source_range[2]
                          prev_node == self.nodes[current_row]
                          content == StrSlice(self.content,
                                              prev_node.source_range[1],
                                              prev_node.source_range[2])
                          merged == [prev_node EXCEPT !.source_range =
                                        <<prev_node.source_range[1],
                                          current_node_range_end>>]
                      IN  [update_text_buffer_content(self, content) EXCEPT
                              !.nodes = SubSeq(self.nodes, 1, current_row - 1)
                                        \o <<merged>>
                                        \o SubSeq(self.nodes, current_row + 2,
                                                  Len(self.nodes)),
                              !.current_row = SaturatingSub(current_row, 1),
                              !.dirty = TRUE]
                 ELSE self
        ELSE [self EXCEPT !.dirty = TRUE,
                          !.text_buffer = TextBuffer_edit(@, "Backspace")]

\* EditorState::edit
EditorState_edit(self, input) ==
    LET text_buffer == TextBuffer_edit(self.text_buffer, input)
    IN  [self EXCEPT !.text_buffer = text_buffer,
                     !.dirty = IF text_buffer.modified THEN TRUE ELSE @]

\* The intermediate save of a dirty buffer as the cursor leaves it.
SaveIfDirty(self) ==
    IF self.dirty THEN [intermediate_save(self) EXCEPT !.dirty = FALSE] ELSE self

\* EditorState::cursor_up
EditorState_cursor_up(self) ==
    IF self.text_buffer.cursor[1] = 0
      THEN LET saved == SaveIfDirty(self)
           IN  IF saved.current_row = 0 THEN saved
               ELSE LET moved == update_text_buffer(
                                     [saved EXCEPT !.current_row =
                                         SaturatingSub(@, 1)])
                    IN  [moved EXCEPT !.text_buffer = cursor_move(@, "Bottom")]
      ELSE [self EXCEPT !.text_buffer = cursor_move(@, "Up")]

\* EditorState::cursor_down
EditorState_cursor_down(self) ==
    IF self.text_buffer.cursor[1] < SaturatingSub(Len(self.text_buffer.lines), 1)
      THEN [self EXCEPT !.text_buffer = cursor_move(@, "Down")]
      ELSE LET saved == SaveIfDirty(self)
               nodes_amount == Len(saved.nodes)
           IN  IF saved.current_row = SaturatingSub(nodes_amount, 1) THEN saved
               ELSE LET moved == update_text_buffer(
                                     [saved EXCEPT !.current_row =
                                         Min(@ + 1,
                                             SaturatingSub(Len(saved.nodes), 1))])
                    IN  [moved EXCEPT !.text_buffer = cursor_move(@, "Top")]

\* EditorState::cursor_left, cursor_right, cursor_word_forward and
\* cursor_word_backward
EditorState_cursor_left(self) ==
    [self EXCEPT !.text_buffer = cursor_move(@, "Left")]

EditorState_cursor_right(self) ==
    [self EXCEPT !.text_buffer = cursor_move(@, "Right")]

EditorState_cursor_word_forward(self) ==
    [self EXCEPT !.text_buffer = cursor_move(@, "WordForward")]

EditorState_cursor_word_backward(self) ==
    [self EXCEPT !.text_buffer = cursor_move(@, "WordBackward")]

\* EditorState::save_modified_to_file, the file created and written.
save_modified_to_file(self) == [self EXCEPT !.modified = FALSE]

\* EditorState::save
EditorState_save(self) ==
    IF ~self.modified THEN self ELSE save_modified_to_file(self)

\* EditorState::scroll_up and scroll_down
EditorState_scroll_up(self, amount) ==
    [self EXCEPT !.scrollbar.position = SaturatingSub(@, amount)]

EditorState_scroll_down(self, amount) ==
    [self EXCEPT !.scrollbar.position = @ + amount]

(***************************************************************************)
(* The editor on one note: the note is opened from its file as the Open of  *)
(* the explorer does, and then edited, left, walked and saved in any order. *)
(* Texts stay within MaxContent characters and the text area within         *)
(* MaxBuffer.                                                               *)
(***************************************************************************)
\* The notes of the vault, by path: the names of the directories and of
\* the note.
NotePaths == {<<<<"a">>>>, <<<<"B">>>>}

\* What the file of a note holds at first.
Files == {<<"a">>, <<NL, "a", NL>>, <<"a", NL, NL, "a">>}

\* The keys typed into the text area: a letter and Enter.
EditorInputs == {"a", "Enter"}

Fits(self) ==
    /\ Len(self.content) <= MaxContent
    /\ Len(TextBuffer_to_string(self.text_buffer)) <= MaxBuffer

InitEditor ==
    /\ Begin(<<>>) /\ calls = 1 /\ memo = NoMemo
    /\ NoView
    /\ NoPanels
    /\ NoConfig
    /\ editor_state = NoEditor
    /\ \E text \in Files : note_file = [p \in NotePaths |-> text]
    /\ app_state = NoApp

\* The editor of a note just opened: EditorState::default() with the mode,
\* the content read from the file of the note, and its path.
OpenedEditor(mode, path) ==
    EditorState_set_path(
        EditorState_set_content(EditorState_set_mode(NoEditor, mode),
                                note_file[path]),
        path)

\* EditorState::default().set_mode(Edit).set_content(content).set_path(path)
EditorOpen ==
    /\ editor_state' = OpenedEditor("Edit", <<<<"a">>>>)
    /\ editor_state' # editor_state
    /\ UNCHANGED <<parserVars, viewVars, configVars, panelVars, note_file, appVars>>

\* state.edit(input)
EditorEdit ==
    /\ editor_state.path # <<>>
    /\ \E input \in EditorInputs :
          /\ Fits(EditorState_edit(editor_state, input))
          /\ editor_state' = EditorState_edit(editor_state, input)
    /\ UNCHANGED <<parserVars, viewVars, configVars, panelVars, note_file, appVars>>

\* state.exit_insert()
EditorExitInsert ==
    /\ editor_state.path # <<>>
    /\ Fits(EditorState_exit_insert(editor_state))
    /\ editor_state' = EditorState_exit_insert(editor_state)
    /\ UNCHANGED <<parserVars, viewVars, configVars, panelVars, note_file, appVars>>

\* state.delete_char()
EditorDeleteChar ==
    /\ editor_state.path # <<>>
    /\ Fits(EditorState_delete_char(editor_state))
    /\ editor_state' = EditorState_delete_char(editor_state)
    /\ UNCHANGED <<parserVars, viewVars, configVars, panelVars, note_file, appVars>>

\* state.cursor_up()
EditorCursorUp ==
    /\ editor_state.path # <<>>
    /\ Fits(EditorState_cursor_up(editor_state))
    /\ editor_state' = EditorState_cursor_up(editor_state)
    /\ UNCHANGED <<parserVars, viewVars, configVars, panelVars, note_file, appVars>>

\* state.cursor_down()
EditorCursorDown ==
    /\ editor_state.path # <<>>
    /\ Fits(EditorState_cursor_down(editor_state))
    /\ editor_state' = EditorState_cursor_down(editor_state)
    /\ UNCHANGED <<parserVars, viewVars, configVars, panelVars, note_file, appVars>>

\* state.cursor_left()
EditorCursorLeft ==
    /\ editor_state.path # <<>>
    /\ editor_state' = EditorState_cursor_left(editor_state)
    /\ UNCHANGED <<parserVars, viewVars, configVars, panelVars, note_file, appVars>>

\* state.cursor_right()
EditorCursorRight ==
    /\ editor_state.path # <<>>
    /\ editor_state' = EditorState_cursor_right(editor_state)
    /\ UNCHANGED <<parserVars, viewVars, configVars, panelVars, note_file, appVars>>

\* state.save(), the write succeeding: the file of the note holds the
\* content when there was something to save.
EditorSave ==
    /\ editor_state.path # <<>>
    /\ editor_state' = EditorState_save(editor_state)
    /\ note_file' = IF editor_state.modified
                      THEN [note_file EXCEPT ![editor_state.path] =
                               editor_state.content]
                      ELSE note_file
    /\ UNCHANGED <<parserVars, viewVars, configVars, panelVars, appVars>>

NextEditor ==
    \/ EditorOpen
    \/ EditorEdit
    \/ EditorExitInsert
    \/ EditorDeleteChar
    \/ EditorCursorUp
    \/ EditorCursorDown
    \/ EditorCursorLeft
    \/ EditorCursorRight
    \/ EditorSave

SpecEditor == InitEditor /\ [][NextEditor]_vars

\* C34: whenever modified is false, the content of the editor is the text
\* of the file of its note, as last loaded or last written, so that a save
\* skipped for modified being false leaves no difference behind.
C34_UnmodifiedEqualsFile ==
    (editor_state.path # <<>> /\ ~editor_state.modified) =>
        editor_state.content = note_file[editor_state.path]

\* C35: whenever the editor has nodes, current_row is the index of one of
\* them.
C35_CurrentRowInBounds ==
    editor_state.nodes # <<>> => editor_state.current_row < Len(editor_state.nodes)

(***************************************************************************)
(* The main screen of the application (src/basalt/src/app.rs): App::update  *)
(* on the messages of the explorer and of the note editor.  MainState is    *)
(* active_pane and selected_note of app_state with explorer_state,          *)
(* editor_state and outline_state.  The vault holds a note of two           *)
(* paragraphs and a note of one, and the screen is ScreenHeight rows high.  *)
(***************************************************************************)
MaxKeys == 2

MaxScroll == 1

ScreenHeight == 2

AppVault == <<FileEntry(<<"a">>, <<>>), FileEntry(<<"B">>, <<>>)>>

AppFiles == (<<<<"a">>>> :> <<"a", NL, NL, "a">>) @@ (<<<<"B">>>> :> <<"a">>)

ScrollAmounts == {"One", "HalfPage"}

\* explorer::Message
ExplorerMessages ==
    {[name |-> n, amount |-> "One"] :
        n \in {"Up", "Down", "Open", "Sort", "Toggle", "SwitchPaneNext",
               "SwitchPanePrevious"}}
    \cup {[name |-> n, amount |-> a] :
             n \in {"ScrollUp", "ScrollDown"}, a \in ScrollAmounts}

\* note_editor::Message
NoteEditorMessages ==
    {[name |-> n, amount |-> "One", key |-> ""] :
        n \in {"Save", "SwitchPaneNext", "SwitchPanePrevious", "ToggleExplorer",
               "EditMode", "ExitMode", "ReadMode", "CursorUp", "CursorLeft",
               "CursorRight", "CursorWordForward", "CursorWordBackward",
               "CursorDown", "Delete"}}
    \cup {[name |-> n, amount |-> a, key |-> ""] :
             n \in {"ScrollUp", "ScrollDown"}, a \in ScrollAmounts}
    \cup {[name |-> "KeyEvent", amount |-> "One", key |-> k] : k \in EditorInputs}

\* calc_scroll_amount
calc_scroll_amount(scroll_amount, height) ==
    IF scroll_amount = "One" THEN 1 ELSE height \div 2

\* ExplorerState::set_active
ExplorerState_set_active(self, active) == [self EXCEPT !.active = active]

\* ExplorerState::toggle
ExplorerState_toggle(self) == [self EXCEPT !.open = ~self.open]

\* explorer::update
explorer_update(message, state) ==
    CASE message.name = "Up" -> ExplorerState_previous(state, 1)
      [] message.name = "Down" -> ExplorerState_next(state, 1)
      [] message.name = "Sort" -> ExplorerState_sort(state)
      [] message.name = "Open" -> ExplorerState_select(state)
      [] message.name = "Toggle" -> ExplorerState_toggle(state)
      [] message.name \in {"SwitchPaneNext", "SwitchPanePrevious"} ->
           IF state.active THEN ExplorerState_set_active(state, FALSE)
           ELSE ExplorerState_set_active(state, TRUE)
      [] OTHER -> state

\* An editor that any configuration enables.
editor_always_enabled(app) == TRUE

\* self.config.experimental_editor
editor_enabled(app) == app.experimental_editor

\* SelectedNote::from: the name and the path of the note and the text read
\* from its file, empty when the file cannot be read.
SelectedNote_from(note) ==
    [name |-> note.name, path |-> note.path,
     content |-> IF note.path \in DOMAIN note_file THEN note_file[note.path]
                 ELSE <<>>]

\* The selected note with the content of the editor.
WithContent(selected_note, note_editor) ==
    IF selected_note = <<>> THEN <<>>
    ELSE <<[selected_note[1] EXCEPT !.content = note_editor.content]>>

InitApp ==
    /\ Begin(<<>>) /\ calls = 1 /\ memo = NoMemo
    /\ NoView
    /\ NoPanels
    /\ NoConfig
    /\ editor_state = NoEditor
    /\ note_file = AppFiles
    /\ \E experimental_editor \in BOOLEAN :
          app_state = [NoApp EXCEPT !.experimental_editor = experimental_editor,
                                    !.screen_size.height = ScreenHeight]

\* MainState::new(name, entries): the main screen of a vault, from the
\* splash screen or from the vault selector.
AppOpenVault ==
    /\ app_state' = [app_state EXCEPT !.screen = "Main",
                                      !.active_pane = "Explorer",
                                      !.selected_note = <<>>,
                                      !.loaded = <<>>]
    /\ explorer_state' =
          [ExplorerState_set_active(ExplorerState_new("vault", AppVault), TRUE)
              EXCEPT !.made = TRUE]
    /\ editor_state' = NoEditor
    /\ outline_state' = NoOutline
    /\ UNCHANGED <<parserVars, viewVars, configVars, note_file>>

\* Message::Explorer(message) on the main screen.
AppUpdateExplorer ==
    /\ app_state.screen = "Main"
    /\ \E message \in ExplorerMessages :
          LET explorer == explorer_update(message, explorer_state)
              amount == calc_scroll_amount(message.amount,
                                           app_state.screen_size.height)
          IN  CASE message.name = "SwitchPaneNext" ->
                     /\ app_state' = [app_state EXCEPT !.active_pane = "NoteEditor"]
                     /\ editor_state' = EditorState_set_active(editor_state, TRUE)
                     /\ explorer_state' = explorer
                     /\ UNCHANGED outline_state
                [] message.name = "SwitchPanePrevious" ->
                     /\ app_state' = [app_state EXCEPT !.active_pane = "Outline"]
                     /\ outline_state' = [outline_state EXCEPT !.active = TRUE]
                     /\ explorer_state' = explorer
                     /\ UNCHANGED editor_state
                [] message.name = "ScrollUp" ->
                     /\ explorer_state' = ExplorerState_previous(explorer, amount)
                     /\ UNCHANGED <<app_state, editor_state, outline_state>>
                [] message.name = "ScrollDown" ->
                     /\ explorer_state' = ExplorerState_next(explorer, amount)
                     /\ UNCHANGED <<app_state, editor_state, outline_state>>
                [] message.name = "Toggle" ->
                     IF explorer.open
                       THEN /\ explorer_state' = explorer
                            /\ UNCHANGED <<app_state, editor_state, outline_state>>
                       ELSE /\ app_state' =
                                  [app_state EXCEPT !.active_pane = "NoteEditor"]
                            /\ explorer_state' =
                                  ExplorerState_set_active(explorer, FALSE)
                            /\ editor_state' =
                                  EditorState_set_active(editor_state, TRUE)
                            /\ UNCHANGED outline_state
                [] message.name = "Open" ->
                     LET selected_note ==
                             IF explorer.selected_note = <<>> THEN <<>>
                             ELSE <<SelectedNote_from(explorer.selected_note[1])>>
                         note_editor ==
                             IF selected_note = <<>> THEN NoEditor
                             ELSE EditorState_set_path(
                                      EditorState_set_content(
                                          EditorState_set_mode(NoEditor,
                                              IF app_state.experimental_editor
                                                THEN editor_state.mode
                                                ELSE "Read"),
                                          selected_note[1].content),
                                      selected_note[1].path)
                     IN  /\ explorer_state' = explorer
                         /\ editor_state' = note_editor
                         /\ app_state' =
                               [app_state EXCEPT
                                   !.selected_note = selected_note,
                                   !.loaded = IF selected_note = <<>> THEN <<>>
                                              ELSE selected_note[1].content]
                         /\ UNCHANGED outline_state
                [] OTHER ->
                     /\ explorer_state' = explorer
                     /\ UNCHANGED <<app_state, editor_state, outline_state>>
    /\ UNCHANGED <<parserVars, viewVars, configVars, note_file>>

\* The MainState of the main screen.
MainStateNow ==
    [active_pane |-> app_state.active_pane, explorer |-> explorer_state,
     note_editor |-> editor_state, selected_note |-> app_state.selected_note,
     outline |-> outline_state]

\* The arms of Message::NoteEditor(message) that only an enabled editor
\* has; they return from update.
EnabledArm(message, mode) ==
    \/ message.name = "KeyEvent" /\ mode = "Edit"
    \/ message.name \in {"CursorLeft", "CursorRight", "CursorWordForward",
                         "CursorWordBackward", "Delete", "Save"}
    \/ message.name = "EditMode" /\ mode # "Edit"
    \/ message.name = "ReadMode" /\ mode # "Read"
    \/ message.name = "ExitMode" /\ mode \in {"Read", "Edit"}

\* Message::NoteEditor(message): the MainState after the message, for a
\* screen of the given height.
update_note_editor(message, main_state, enabled, height) ==
    LET note_editor == main_state.note_editor
        mode == note_editor.mode
        name == message.name
        amount == calc_scroll_amount(message.amount, height)
    IN  IF enabled /\ EnabledArm(message, mode)
          THEN CASE name = "KeyEvent" ->
                      LET edited == EditorState_edit(note_editor, message.key)
                      IN  [main_state EXCEPT
                              !.note_editor = edited,
                              !.selected_note = WithContent(@, edited)]
                 [] name = "CursorLeft" ->
                      [main_state EXCEPT
                          !.note_editor = EditorState_cursor_left(@)]
                 [] name = "CursorRight" ->
                      [main_state EXCEPT
                          !.note_editor = EditorState_cursor_right(@)]
                 [] name = "CursorWordForward" ->
                      [main_state EXCEPT
                          !.note_editor = EditorState_cursor_word_forward(@)]
                 [] name = "CursorWordBackward" ->
                      [main_state EXCEPT
                          !.note_editor = EditorState_cursor_word_backward(@)]
                 [] name = "Delete" ->
                      [main_state EXCEPT
                          !.note_editor = EditorState_delete_char(@)]
                 [] name = "EditMode" ->
                      IF main_state.selected_note # <<>>
                        THEN [main_state EXCEPT
                                 !.active_pane = "NoteEditor",
                                 !.note_editor =
                                     EditorState_set_mode(
                                         EditorState_set_content(@,
                                             main_state.selected_note[1].content),
                                         "Edit")]
                        ELSE main_state
                 [] name = "ReadMode" ->
                      [main_state EXCEPT
                          !.note_editor = EditorState_set_mode(@, "Read")]
                 [] name = "ExitMode" /\ mode = "Read" ->
                      [main_state EXCEPT
                          !.note_editor = EditorState_set_mode(@, "View")]
                 [] name = "ExitMode" /\ mode = "Edit" ->
                      LET left == EditorState_exit_insert(note_editor)
                      IN  [main_state EXCEPT
                              !.note_editor = EditorState_set_mode(left, "View"),
                              !.selected_note = WithContent(@, left)]
                 [] name = "Save" ->
                      LET saved == EditorState_save(note_editor)
                      IN  [main_state EXCEPT
                              !.note_editor = saved,
                              !.selected_note = WithContent(@, saved)]
          ELSE CASE name = "CursorUp" ->
                      [main_state EXCEPT !.note_editor = EditorState_cursor_up(@)]
                 [] name = "CursorDown" ->
                      [main_state EXCEPT !.note_editor = EditorState_cursor_down(@)]
                 [] name = "ScrollUp" /\ mode # "Edit" ->
                      [main_state EXCEPT
                          !.note_editor = EditorState_scroll_up(@, amount)]
                 [] name = "ScrollDown" /\ mode # "Edit" ->
                      [main_state EXCEPT
                          !.note_editor = EditorState_scroll_down(@, amount)]
                 [] name = "ToggleExplorer" /\ mode # "Edit" ->
                      IF main_state.explorer.open
                        THEN [main_state EXCEPT
                                 !.explorer = ExplorerState_toggle(@)]
                        ELSE [main_state EXCEPT
                                 !.active_pane = "Explorer",
                                 !.explorer = ExplorerState_set_active(
                                                  ExplorerState_toggle(@), TRUE),
                                 !.note_editor = EditorState_set_active(@, FALSE)]
                 [] name = "SwitchPaneNext" ->
                      [main_state EXCEPT
                          !.active_pane = "Outline",
                          !.note_editor = EditorState_set_active(@, FALSE),
                          !.outline = [@ EXCEPT !.active = TRUE]]
                 [] name = "SwitchPanePrevious" ->
                      [main_state EXCEPT
                          !.active_pane = "Explorer",
                          !.note_editor = EditorState_set_active(@, FALSE),
                          !.explorer = ExplorerState_set_active(@, TRUE)]
                 [] name = "ScrollUp" /\ mode = "Edit" ->
                      [main_state EXCEPT !.note_editor = EditorState_cursor_up(@)]
                 [] name = "ScrollDown" /\ mode = "Edit" ->
                      [main_state EXCEPT !.note_editor = EditorState_cursor_down(@)]
                 [] OTHER -> main_state

\* Message::NoteEditor(message) on the main screen.  The save of a modified
\* editor writes the file of its path.  At most MaxKeys messages reach the
\* arms of the enabled editor and the scrollbar stays within MaxScroll.
AppUpdateNoteEditor ==
    /\ app_state.screen = "Main"
    /\ \E message \in NoteEditorMessages :
          LET enabled == editor_enabled(app_state)
              typed == enabled /\ EnabledArm(message, editor_state.mode)
              written == enabled /\ message.name = "Save"
                         /\ editor_state.modified
                         /\ editor_state.path \in DOMAIN note_file
          IN  \E main_state \in {update_note_editor(message, MainStateNow, enabled,
                                                    app_state.screen_size.height)} :
              /\ typed => app_state.keys < MaxKeys
              /\ Fits(main_state.note_editor)
              /\ main_state.note_editor.scrollbar.position <= MaxScroll
              /\ editor_state' =
                    IF enabled /\ message.name = "Save" /\ ~written
                      THEN editor_state
                      ELSE main_state.note_editor
              /\ explorer_state' = main_state.explorer
              /\ outline_state' = main_state.outline
              /\ note_file' =
                    IF written
                      THEN [note_file EXCEPT ![editor_state.path] =
                               editor_state.content]
                      ELSE note_file
              /\ app_state' =
                    [app_state EXCEPT
                        !.active_pane = main_state.active_pane,
                        !.selected_note = main_state.selected_note,
                        !.keys = IF typed THEN @ + 1 ELSE @,
                        !.saves = IF written THEN @ + 1 ELSE @]
    /\ UNCHANGED <<parserVars, viewVars, configVars>>

NextApp ==
    \/ AppOpenVault
    \/ AppUpdateExplorer
    \/ AppUpdateNoteEditor

\* The application from its start, under either setting of
\* experimental_editor.
SpecApp == InitApp /\ [][NextApp]_vars

\* The application of a configuration with experimental_editor = false.
InitAppDisabled == InitApp /\ ~app_state.experimental_editor

SpecAppDisabled == InitAppDisabled /\ [][NextApp]_vars

\* C32: with experimental_editor false the editor is never in Edit mode,
\* its content is the text the last Open has read (empty before one), and
\* no save has written a file: the files are as they were.
C32_DisabledEditorIsReadOnly ==
    ~app_state.experimental_editor =>
        /\ editor_state.mode # "Edit"
        /\ editor_state.content = app_state.loaded
        /\ app_state.saves = 0
        /\ note_file \in {<<>>, AppFiles}

\* A note of two paragraphs is open in the disabled editor and the cursor
\* has gone down to its second paragraph.
C32_Witness ==
    /\ ~app_state.experimental_editor
    /\ app_state.screen = "Main"
    /\ app_state.selected_note # <<>>
    /\ app_state.loaded # <<>>
    /\ editor_state.current_row = 1
    /\ editor_state.content = app_state.loaded

\* C33: on the main screen a closed explorer is neither the active pane nor
\* active.
C33_ClosedExplorerHasNoFocus ==
    (app_state.screen = "Main" /\ ~explorer_state.open) =>
        /\ app_state.active_pane # "Explorer"
        /\ ~explorer_state.active

====
